---- MODULE Spec2Model ----
(***************************************************************************)
(* Model of the goflash/benchmarks harness: the progress tracker           *)
(* (internal/progress/progress.go), the process manager                    *)
(* (internal/process/manager.go) and the benchmark runner (package         *)
(* runner).                                                                *)
(*                                                                         *)
(* Several specifications share the module; each one drives one component  *)
(* and leaves the variables of the others at their initial values:         *)
(*   SpecTracker  the Tracker API called in any order                      *)
(*   SpecSave     Tracker calls with os.WriteFile split into its steps and *)
(*                the program interrupted at any point                     *)
(*   SpecRun      Runner.Run, run after run over the same state file, the  *)
(*                process manager seen through the results of its calls    *)
(*   SpecCell     runTestWithRestart on one cell                           *)
(*   SpecSup      the process manager supervising one target: its monitor  *)
(*                goroutines, the API calls and Shutdown, interleaved      *)
(*   SpecDelay    the restart delays of monitorProcess, restart after      *)
(*                restart, for every restart policy of a bounded set       *)
(*   SpecE2E      one Run end to end: the runner, the tracker and the      *)
(*                process manager together, the target crashing once       *)
(*   SpecStore    Run over a state file that is missing or corrupt, with   *)
(*                saves that may fail                                      *)
(*   SpecParse    parseLatency and runTest on a bounded set of texts       *)
(*   SpecFan      StartAllFrameworks: one goroutine per framework          *)
(*   SpecShutdown the process manager with Shutdown scheduled fairly       *)
(*   SpecTeardown the process manager with no API call once Shutdown has   *)
(*                begun                                                    *)
(*   SpecReturn   one Run with its process manager, every way Run returns  *)
(*   SpecLock     the mutexes of the process manager and of its records,   *)
(*                taken by goroutines running its functions                *)
(***************************************************************************)
EXTENDS Naturals, Integers, Sequences, FiniteSets, TLC

VARIABLES
    disk,       \* content of <results-dir>/progress_state.json
    now,        \* wall clock, one tick per Tracker call
    call,       \* the last Tracker call: its name, inputs and the file before it
    savePc,     \* SpecSave: position inside the SaveState in flight
    saveOld,    \* SpecSave: the file when the SaveState in flight began
    saveNew,    \* SpecSave: the snapshot the SaveState in flight is writing
    runPc,      \* Runner.Run: the phase the run is in
    runCfg,     \* Runner.config of the run
    sessions,   \* number of runs of the program so far
    resumeInfo, \* the types.ResumeInfo Run read before InitializeProgress
    completedTests, \* runBenchmarks: its count of completed tests
    visited,    \* runBenchmarks: the cells the loops have reached in this run
    skipped,    \* runBenchmarks: the cells shouldSkipTest skipped in this run
    cur,        \* runBenchmarks: the cell of the current iteration
    cell,       \* runTestWithRestart: its local variables
    results,    \* Runner.results
    cellRuns,   \* per cell, the calls of runTestWithRestart in this run
    loadTool,   \* the cells the load tool (runTest) was run for in this run
    processes,  \* ProcessManager.processes: the record of the target, 0 for none
    records,    \* the ManagedProcess records ever created
    cancelled,  \* the contexts that are done; context 0 is ProcessManager.ctx
    nctx,       \* number of contexts derived from ProcessManager.ctx so far
    shuttingDown, \* ProcessManager.shuttingDown
    osProcs,    \* the OS processes ever spawned: alive or not, context, spawner
    monitors,   \* per record, the position of its monitorProcess goroutine
    ensure,     \* the EnsureFrameworkRunning call in flight
    shutdownPc, \* the position of Shutdown
    apiCalls,   \* number of calls of the ProcessManager API so far
    api,        \* the last StartFramework or StopFramework call and what it returned
    policy,     \* monitorProcess: the RestartPolicy it read from the config
    restarts,   \* monitorProcess: managedProc.RestartCount when it computes the delay
    delay,      \* monitorProcess: the delay it sleeps before the restart
    iter,       \* SpecE2E: the position inside the iteration of runTestWithRestart
    crashes,    \* SpecE2E: the crashes of the target so far
    summary,    \* <results-dir>/summary.csv: its data rows
    parts,      \* <results-dir>/parts/summary_<framework>.csv: their data rows
    fan,        \* SpecFan: the StartAllFrameworks call and its goroutines
    parseIn,    \* SpecParse: the text handed to the parser
    parseOut,   \* SpecParse: what the parser returned
    mu,         \* SpecLock: pm.mu and the mu of every ManagedProcess
    gor         \* SpecLock: the goroutines inside the ProcessManager

trackerVars == <<disk, now, call>>
saveVars == <<savePc, saveOld, saveNew>>
runVars == <<runPc, runCfg, sessions, resumeInfo, completedTests, visited, skipped,
             cur, cell, results, cellRuns, loadTool>>
supVars == <<processes, records, cancelled, nctx, shuttingDown, osProcs, monitors,
             ensure, shutdownPc, apiCalls, api>>
delayVars == <<policy, restarts, delay>>
e2eVars == <<iter, crashes>>
csvVars == <<summary, parts>>
fanVars == <<fan>>
parseVars == <<parseIn, parseOut>>
lockVars == <<mu, gor>>
restVars == <<delayVars, e2eVars, csvVars, fanVars, parseVars, lockVars>>
vars == <<disk, now, call, savePc, saveOld, saveNew, runVars, supVars, restVars>>

----------------------------------------------------------------------------
(* Bounds of the model *)

\* number of Tracker calls in one behaviour
MaxCalls == 5
\* largest batch count of a configuration
MaxBatches == 2
\* runs of the program over one results directory
MaxSessions == 2
\* largest Benchmark.MaxRetries of SpecCell
MaxRetriesBound == 4
\* Process.MaxRestarts of the configuration of SpecSup
MaxRestarts == 2
\* OS processes spawned in one behaviour of SpecSup
MaxProcs == 3
\* ManagedProcess records created in one behaviour of SpecSup
MaxRecords == 2
\* calls of StartFramework, StopFramework and EnsureFrameworkRunning in one
\* behaviour of SpecSup
MaxApiCalls == 3

----------------------------------------------------------------------------
(* Configurations (types.Config, as far as the tracker and the runner read *)
(* it): Frameworks and Scenarios map a configuration key to the display    *)
(* name (Framework.Name, Scenario.Name).                                   *)

Config(fws, scs, batches, retries) ==
    [Frameworks |-> fws, Scenarios |-> scs, Batches |-> batches, MaxRetries |-> retries]

\* two targets, one scenario
CfgPlain(b) == Config([f1 |-> "a", f2 |-> "b"], [s1 |-> "p"], b, 1)
\* one target, one scenario
CfgNarrow(b) == Config([f1 |-> "a"], [s1 |-> "p"], b, 1)
\* display names that hold the separator of the key
CfgAmbig(b) == Config([f1 |-> "a", f2 |-> "a_p"], [s1 |-> "p", s2 |-> "p_p"], b, 1)

Configs ==
    {CfgPlain(b) : b \in 1..MaxBatches} \cup {CfgNarrow(b) : b \in 1..MaxBatches}
        \cup {CfgAmbig(1)}

\* len(config.Frameworks) * len(config.Scenarios) * config.Benchmark.Batches
TotalTestsOf(config) ==
    Cardinality(DOMAIN config.Frameworks) * Cardinality(DOMAIN config.Scenarios)
        * config.Batches

\* the cells of a configuration, by configuration key
CellsOf(config) ==
    (DOMAIN config.Frameworks) \X (DOMAIN config.Scenarios) \X (1..config.Batches)

\* fmt.Sprintf("%s_%s_%d", framework, scenario, batch)
TestKey(framework, scenario, batch) ==
    framework \o "_" \o scenario \o "_" \o ToString(batch)

\* the key of a cell, from the display names of its configuration
CellKey(config, c) ==
    TestKey(config.Frameworks[c[1]], config.Scenarios[c[2]], c[3])

\* types.TestResult, as parseOutput fills it: the display names and the batch
\* (the measurements and the retry index are left out: nothing reads them)
TestResult(config, c) ==
    [Framework |-> config.Frameworks[c[1]], Scenario |-> config.Scenarios[c[2]],
     Batch |-> c[3]]

SeqContains(s, x) == \E i \in 1..Len(s) : s[i] = x

SeqToSet(s) == {s[i] : i \in 1..Len(s)}

----------------------------------------------------------------------------
(* The state file. kind "none": no file; kind "corrupt": a file that       *)
(* json.Unmarshal rejects (empty or cut short); kind "state": a            *)
(* ProgressState.                                                          *)

NoFile == [kind |-> "none"]

Corrupt == [kind |-> "corrupt"]

\* what SaveState's os.MkdirAll and os.WriteFile can do: write the file, fail
\* before touching it, or fail after the file was truncated
SaveOutcomes == {"ok", "err", "torn"}

\* LoadState: (nil, nil) without a file, an error on an unparsable file
LoadErr(d) == d.kind = "corrupt"

LoadNil(d) == d.kind = "none"

\* SaveState stamps LastUpdate and overwrites the file
SaveState(d, state, io, t) ==
    CASE io = "ok" -> [state EXCEPT !.LastUpdate = t]
      [] io = "err" -> d
      [] OTHER -> Corrupt

\* NewState without the seed: the completed list and the results start empty
NewStateUnseeded(config, t, completedList, carried) ==
    [kind |-> "state", RunID |-> t, StartTime |-> t, LastUpdate |-> t,
     CurrentFramework |-> "", CurrentScenario |-> "", CurrentBatch |-> 0,
     TotalBatches |-> config.Batches, CurrentRetry |-> 0,
     MaxRetries |-> config.MaxRetries, CompletedTests |-> 0,
     TotalTests |-> TotalTestsOf(config), CompletedTestsList |-> <<>>,
     FailedTests |-> <<>>, Results |-> <<>>, Config |-> config,
     Status |-> "running"]

\* NewState seeded with the completed list but not with the results
NewStateWithoutResults(config, t, completedList, carried) ==
    [kind |-> "state", RunID |-> t, StartTime |-> t, LastUpdate |-> t,
     CurrentFramework |-> "", CurrentScenario |-> "", CurrentBatch |-> 0,
     TotalBatches |-> config.Batches, CurrentRetry |-> 0,
     MaxRetries |-> config.MaxRetries, CompletedTests |-> 0,
     TotalTests |-> TotalTestsOf(config), CompletedTestsList |-> completedList,
     FailedTests |-> <<>>, Results |-> <<>>, Config |-> config,
     Status |-> "running"]

NewState(config, t, completedList, carried) ==
    [kind |-> "state", RunID |-> t, StartTime |-> t, LastUpdate |-> t,
     CurrentFramework |-> "", CurrentScenario |-> "", CurrentBatch |-> 0,
     TotalBatches |-> config.Batches, CurrentRetry |-> 0,
     MaxRetries |-> config.MaxRetries, CompletedTests |-> 0,
     TotalTests |-> TotalTestsOf(config), CompletedTestsList |-> completedList,
     FailedTests |-> <<>>, Results |-> carried, Config |-> config,
     Status |-> "running"]

\* InitializeProgress: resume a snapshot that is not completed, seed from a
\* completed one with completed tests, else start fresh
\* InitializeProgress resuming a running snapshot with the totals it holds
InitializeProgressKeepTotals(d, config, io, t) ==
    IF ~LoadErr(d) /\ ~LoadNil(d) /\ d.Status # "completed"
    THEN SaveState(d, [d EXCEPT !.Config = config,
                                !.LastUpdate = t,
                                !.Status = "running"], io, t)
    ELSE IF ~LoadErr(d) /\ ~LoadNil(d) /\ d.Status = "completed"
                /\ Len(d.CompletedTestsList) > 0
    THEN SaveState(d, NewState(config, t, d.CompletedTestsList, d.Results), io, t)
    ELSE SaveState(d, NewState(config, t, <<>>, <<>>), io, t)

InitializeProgress(d, config, io, t) ==
    IF ~LoadErr(d) /\ ~LoadNil(d) /\ d.Status # "completed"
    THEN SaveState(d, [d EXCEPT !.Config = config,
                                !.TotalTests = TotalTestsOf(config),
                                !.TotalBatches = config.Batches,
                                !.MaxRetries = config.MaxRetries,
                                !.LastUpdate = t,
                                !.Status = "running"], io, t)
    ELSE IF ~LoadErr(d) /\ ~LoadNil(d) /\ d.Status = "completed"
                /\ Len(d.CompletedTestsList) > 0
    THEN SaveState(d, NewState(config, t, d.CompletedTestsList, d.Results), io, t)
    ELSE SaveState(d, NewState(config, t, <<>>, <<>>), io, t)

\* AppendIfMissing without the search of the list
AppendAlways(list, key) == Append(list, key)

\* the completed list after AddResult: the key is appended unless found
AppendIfMissing(list, key) ==
    IF SeqContains(list, key) THEN list ELSE Append(list, key)

\* AddResult
AddResult(d, result, io, t) ==
    IF LoadErr(d) \/ LoadNil(d) THEN d
    ELSE LET appended == Append(d.Results, result)
             state == [d EXCEPT !.Results = appended,
                                !.CurrentFramework = result.Framework,
                                !.CurrentScenario = result.Scenario,
                                !.CurrentBatch = result.Batch,
                                !.CompletedTests = Len(appended),
                                !.CompletedTestsList =
                                    AppendIfMissing(d.CompletedTestsList,
                                        TestKey(result.Framework, result.Scenario,
                                                result.Batch))]
         IN SaveState(d, state, io, t)

\* MarkTestFailed that records nothing
MarkTestFailedUnrecorded(d, framework, scenario, batch, error, io, t) == d

\* MarkTestFailed
MarkTestFailed(d, framework, scenario, batch, error, io, t) ==
    IF LoadErr(d) \/ LoadNil(d) THEN d
    ELSE LET failedTest == TestKey(framework, scenario, batch) \o ": " \o error
             state == [d EXCEPT !.FailedTests = Append(d.FailedTests, failedTest),
                                !.CurrentFramework = framework,
                                !.CurrentScenario = scenario,
                                !.CurrentBatch = batch]
         IN SaveState(d, state, io, t)

\* AllCompleted off by one
AllCompletedOffByOne(state) == state.CompletedTests + 1 >= state.TotalTests

\* the test of Finish: all tests are completed
AllCompleted(state) == state.CompletedTests >= state.TotalTests

\* Finish
Finish(d, io, t) ==
    IF LoadErr(d) \/ LoadNil(d) THEN d
    ELSE IF AllCompleted(d)
    THEN SaveState(d, [d EXCEPT !.Status = "completed"], io, t)
    ELSE d

----------------------------------------------------------------------------
(* SpecTracker: the Tracker API called in any order, with any              *)
(* configuration and any result of a configured cell.                      *)

NoCall == [op |-> "none"]

\* the results and failures the calls are made with
ResultInputs ==
    {TestResult(CfgPlain(MaxBatches), c) :
        c \in {<<"f1", "s1", 1>>, <<"f1", "s1", MaxBatches>>, <<"f2", "s1", 1>>}}

ErrorInputs == {"exit status 1"}

IdleSave ==
    /\ savePc = "idle"
    /\ saveOld = NoFile
    /\ saveNew = NoFile

NoCfg == Config(<<>>, <<>>, 0, 0)

NoCell == <<"", "", 0>>

NilInfo == [nil |-> TRUE, CompletedTests |-> <<>>]

\* the locals of runTestWithRestart at its entry; status, error, loadCalls,
\* retryableFails, sleeps (the backoff sleeps) and waits (the 5 s sleeps of the
\* ensure step) record what the call did
NewCell ==
    [attempt |-> 0, retryCount |-> 0, frameworkRestarts |-> 0, err |-> "",
     status |-> "loop", error |-> "", loadCalls |-> 0,
     retryableFails |-> 0, sleeps |-> 0, waits |-> 0]

IdleRun ==
    /\ runPc = "idle"
    /\ runCfg = NoCfg
    /\ sessions = 0
    /\ resumeInfo = NilInfo
    /\ completedTests = 0
    /\ visited = {}
    /\ skipped = {}
    /\ cur = NoCell
    /\ cell = NewCell
    /\ results = <<>>
    /\ cellRuns = <<>>
    /\ loadTool = {}

\* NewProcessManager: no record, no context done, nothing running
\* no RestartPolicy read and no delay computed
NoPolicy == [MaxRestarts |-> 0, RestartDelay |-> 0, BackoffMultiplier |-> 0,
             MaxRestartDelay |-> 0]

\* no result file written yet
NoCsv == [exists |-> FALSE, rows |-> <<>>]

NoParts == [exists |-> FALSE, files |-> <<>>]

IdleCsv ==
    /\ summary = NoCsv
    /\ parts = NoParts

\* no StartAllFrameworks call
NoFan == [pc |-> "idle"]

IdleFan == fan = NoFan

\* no parser call
NoParse == [fn |-> "none"]

\* no goroutine is inside the ProcessManager of SpecLock
IdleLock == mu = <<>> /\ gor = <<>>

IdleParse ==
    /\ parseIn = ""
    /\ parseOut = NoParse

\* the top of the loop of runTestWithRestart, no test run in this iteration
NoIter == [pc |-> "top", test |-> "ok", hit |-> FALSE]

IdleE2E ==
    /\ iter = NoIter
    /\ crashes = 0

IdleDelay ==
    /\ policy = NoPolicy
    /\ restarts = 0
    /\ delay = 0

\* no StartFramework or StopFramework call yet
NoApi == [op |-> "none", frameworkName |-> "", err |-> FALSE, why |-> "", n |-> 0]

\* no EnsureFrameworkRunning call yet
NoEnsure == [pc |-> "idle", cmd |-> 0, ret |-> "none", path |-> "none",
             probed |-> FALSE, spawned |-> FALSE, polls |-> 0]

IdleSup ==
    /\ processes = 0
    /\ records = <<>>
    /\ cancelled = {}
    /\ nctx = 0
    /\ shuttingDown = FALSE
    /\ osProcs = <<>>
    /\ monitors = <<>>
    /\ ensure = NoEnsure
    /\ shutdownPc = "idle"
    /\ apiCalls = 0
    /\ api = NoApi

InitTracker ==
    /\ disk = NoFile
    /\ now = 0
    /\ call = NoCall
    /\ IdleSave
    /\ IdleRun
    /\ IdleSup
    /\ IdleDelay
    /\ IdleE2E
    /\ IdleCsv
    /\ IdleFan
    /\ IdleParse
    /\ IdleLock

CallInitializeProgress ==
    /\ now < MaxCalls
    /\ \E config \in Configs, io \in SaveOutcomes :
        /\ disk' = InitializeProgress(disk, config, io, now + 1)
        /\ call' = [op |-> "InitializeProgress", pre |-> disk, io |-> io,
                    config |-> config]
    /\ now' = now + 1
    /\ UNCHANGED <<saveVars, runVars, supVars, restVars>>

CallAddResult ==
    /\ now < MaxCalls
    /\ \E result \in ResultInputs, io \in SaveOutcomes :
        /\ disk' = AddResult(disk, result, io, now + 1)
        /\ call' = [op |-> "AddResult", pre |-> disk, io |-> io, result |-> result]
    /\ now' = now + 1
    /\ UNCHANGED <<saveVars, runVars, supVars, restVars>>

CallMarkTestFailed ==
    /\ now < MaxCalls
    /\ \E result \in ResultInputs, error \in ErrorInputs, io \in SaveOutcomes :
        /\ disk' = MarkTestFailed(disk, result.Framework, result.Scenario,
                                  result.Batch, error, io, now + 1)
        /\ call' = [op |-> "MarkTestFailed", pre |-> disk, io |-> io,
                    result |-> result]
    /\ now' = now + 1
    /\ UNCHANGED <<saveVars, runVars, supVars, restVars>>

CallFinish ==
    /\ now < MaxCalls
    /\ \E io \in SaveOutcomes :
        /\ disk' = Finish(disk, io, now + 1)
        /\ call' = [op |-> "Finish", pre |-> disk, io |-> io]
    /\ now' = now + 1
    /\ UNCHANGED <<saveVars, runVars, supVars, restVars>>

NextTracker ==
    \/ CallInitializeProgress
    \/ CallAddResult
    \/ CallMarkTestFailed
    \/ CallFinish

SpecTracker == InitTracker /\ [][NextTracker]_vars

\* C2: the completed list of the persisted snapshot never holds a key twice,
\* and an AddResult whose key is already in the list leaves the length of the
\* list unchanged.
C2_NoDuplicateKeys ==
    /\ disk.kind = "state" =>
        \A i, j \in 1..Len(disk.CompletedTestsList) :
            disk.CompletedTestsList[i] = disk.CompletedTestsList[j] => i = j
    /\ (/\ call.op = "AddResult"
        /\ call.pre.kind = "state"
        /\ disk.kind = "state"
        /\ SeqContains(call.pre.CompletedTestsList,
                       TestKey(call.result.Framework, call.result.Scenario,
                               call.result.Batch)))
       => Len(disk.CompletedTestsList) = Len(call.pre.CompletedTestsList)

\* a second AddResult with the same key was saved
C2_Witness ==
    /\ call.op = "AddResult"
    /\ call.io = "ok"
    /\ call.pre.kind = "state"
    /\ SeqContains(call.pre.Results, call.result)
    /\ Len(disk.Results) = 2
    /\ Len(disk.CompletedTestsList) = 1

\* C3: Finish marks the snapshot completed only if the loaded snapshot has
\* CompletedTests >= TotalTests, and then it does (the save permitting); with
\* CompletedTests < TotalTests the status stays running and the file is left
\* as it was.
C3_FinishGate ==
    (call.op = "Finish" /\ call.pre.kind = "state") =>
        /\ call.pre.CompletedTests < call.pre.TotalTests
            => (disk = call.pre /\ disk.Status = "running")
        /\ (call.pre.CompletedTests >= call.pre.TotalTests /\ call.io = "ok")
            => (disk.kind = "state" /\ disk.Status = "completed")
        /\ (disk.kind = "state" /\ disk.Status = "completed")
            => call.pre.CompletedTests >= call.pre.TotalTests

\* Finish ran on a snapshot one test short of its total
C3_Witness ==
    /\ call.op = "Finish"
    /\ call.pre.kind = "state"
    /\ call.pre.CompletedTests > 0
    /\ call.pre.CompletedTests + 1 = call.pre.TotalTests
    /\ disk.Status = "running"

\* C13: MarkTestFailed discards nothing: after it the persisted snapshot is
\* the one before it except for the failed tests, the current framework,
\* scenario and batch, and the last update; the completed list, the results,
\* the completed count and the status are as they were.
C13_RecordFailureFrame ==
    (call.op = "MarkTestFailed" /\ call.pre.kind = "state") =>
        /\ disk.kind = "state"
        /\ [disk EXCEPT !.FailedTests = call.pre.FailedTests,
                        !.CurrentFramework = call.pre.CurrentFramework,
                        !.CurrentScenario = call.pre.CurrentScenario,
                        !.CurrentBatch = call.pre.CurrentBatch,
                        !.LastUpdate = call.pre.LastUpdate] = call.pre

\* C15: InitializeProgress over a snapshot with status running reuses it: the
\* persisted snapshot keeps its run id, start time, completed list, failed
\* list, results, completed count and current pointers, and differs from the
\* one before at most in the config, the total count, the batch and retry
\* limits, the status (running) and the last update.
C15_ResumeFrame ==
    (/\ call.op = "InitializeProgress"
     /\ call.pre.kind = "state"
     /\ call.pre.Status = "running") =>
        /\ disk.kind = "state"
        /\ disk.Status = "running"
        /\ [disk EXCEPT !.Config = call.pre.Config,
                        !.TotalTests = call.pre.TotalTests,
                        !.TotalBatches = call.pre.TotalBatches,
                        !.MaxRetries = call.pre.MaxRetries,
                        !.LastUpdate = call.pre.LastUpdate] = call.pre
        /\ call.io = "ok" =>
                /\ disk.Config = call.config
                /\ disk.TotalTests = TotalTestsOf(call.config)
                /\ disk.TotalBatches = call.config.Batches
                /\ disk.MaxRetries = call.config.MaxRetries

\* C16: when InitializeProgress finds a snapshot with status completed and a
\* non-empty completed list and its save succeeds, the file holds a new
\* snapshot: run id, start time and last update taken from the time of the
\* call (and so different from the old ones), the old completed list and
\* results unchanged, an empty failed list and status running.
C16_SeedSnapshot ==
    (/\ call.op = "InitializeProgress"
     /\ call.io = "ok"
     /\ call.pre.kind = "state"
     /\ call.pre.Status = "completed"
     /\ Len(call.pre.CompletedTestsList) > 0) =>
        /\ disk.kind = "state"
        /\ disk.RunID = now /\ disk.RunID # call.pre.RunID
        /\ disk.StartTime = now /\ disk.StartTime # call.pre.StartTime
        /\ disk.LastUpdate = now /\ disk.LastUpdate # call.pre.LastUpdate
        /\ disk.CompletedTestsList = call.pre.CompletedTestsList
        /\ disk.Results = call.pre.Results
        /\ disk.FailedTests = <<>>
        /\ disk.Status = "running"
        /\ disk.Config = call.config

\* a seed from a completed snapshot that had results and a recorded failure
C16_Witness ==
    /\ call.op = "InitializeProgress"
    /\ call.io = "ok"
    /\ call.pre.kind = "state"
    /\ call.pre.Status = "completed"
    /\ Len(call.pre.CompletedTestsList) > 0
    /\ Len(call.pre.Results) > 0
    /\ Len(call.pre.FailedTests) > 0
    /\ call.config # call.pre.Config
    /\ disk.kind = "state"
    /\ disk.Status = "running"

\* C37: after an InitializeProgress(config) whose save succeeded, the file is
\* a snapshot with status running and TotalTests = frameworks x scenarios x
\* batches of config, whatever the file was before: missing, unparsable, a
\* running snapshot or a completed one.
C37_InitializeRunning ==
    [][(now' # now /\ call'.op = "InitializeProgress" /\ call'.io = "ok") =>
        /\ disk'.kind = "state"
        /\ disk'.Status = "running"
        /\ disk'.TotalTests = TotalTestsOf(call'.config)
        /\ disk'.Config = call'.config]_vars

\* InitializeProgress has just run over a running snapshot of a configuration
\* with another number of cells
C37_Witness ==
    /\ call.op = "InitializeProgress"
    /\ call.io = "ok"
    /\ call.pre.kind = "state"
    /\ call.pre.Status = "running"
    /\ Len(call.pre.Results) > 0
    /\ call.pre.TotalTests # TotalTestsOf(call.config)
    /\ disk.TotalTests = TotalTestsOf(call.config)

\* the keys of the results of a snapshot
ResultKeys(d) ==
    {TestKey(d.Results[i].Framework, d.Results[i].Scenario, d.Results[i].Batch) :
        i \in DOMAIN d.Results}

\* C36: in every snapshot on disk the keys of the recorded results are the
\* keys of the completed list: every completed key has a result and the key
\* of every result is in the list.
C36_ResultsMatchCompleted ==
    disk.kind = "state" => ResultKeys(disk) = SeqToSet(disk.CompletedTestsList)

\* InitializeProgress has seeded the snapshot from a completed one that held
\* two results of one cell
C36_Witness ==
    /\ call.op = "InitializeProgress"
    /\ call.io = "ok"
    /\ call.pre.kind = "state"
    /\ call.pre.Status = "completed"
    /\ disk.kind = "state"
    /\ disk.Status = "running"
    /\ Len(disk.Results) = 2
    /\ Len(disk.CompletedTestsList) = 1

\* C4: a persisted snapshot with status completed has
\* CompletedTests = TotalTests.
C4_CompletedMeansEqual ==
    (disk.kind = "state" /\ disk.Status = "completed")
        => disk.CompletedTests = disk.TotalTests

----------------------------------------------------------------------------
(* SpecSave: the same Tracker calls, with SaveState's os.WriteFile split   *)
(* into its system calls (open with O_TRUNC, write) and the program        *)
(* interrupted between any two of them. A later program loads the file.    *)

InitSave ==
    /\ disk = NoFile
    /\ now = 0
    /\ call = NoCall
    /\ IdleSave
    /\ IdleRun
    /\ IdleSup
    /\ IdleDelay
    /\ IdleE2E
    /\ IdleCsv
    /\ IdleFan
    /\ IdleParse
    /\ IdleLock

\* a Tracker call has loaded the file and computed the snapshot it saves
BeginSave(op, intended) ==
    /\ savePc = "idle"
    /\ now < MaxCalls
    /\ intended # disk
    /\ saveOld' = disk
    /\ saveNew' = intended
    /\ savePc' = "open"
    /\ now' = now + 1
    /\ call' = [op |-> op, pre |-> disk, io |-> "ok"]
    /\ UNCHANGED <<disk, runVars, supVars, restVars>>

SaveInitializeProgress ==
    \E config \in Configs :
        BeginSave("InitializeProgress", InitializeProgress(disk, config, "ok", now + 1))

SaveAddResult ==
    \E result \in ResultInputs :
        BeginSave("AddResult", AddResult(disk, result, "ok", now + 1))

SaveMarkTestFailed ==
    \E result \in ResultInputs, error \in ErrorInputs :
        BeginSave("MarkTestFailed",
                  MarkTestFailed(disk, result.Framework, result.Scenario,
                                 result.Batch, error, "ok", now + 1))

SaveFinish == BeginSave("Finish", Finish(disk, "ok", now + 1))

\* os.WriteFile: OpenFile(name, O_WRONLY|O_CREATE|O_TRUNC, perm)
WriteFileOpen ==
    /\ savePc = "open"
    /\ disk' = Corrupt
    /\ savePc' = "write"
    /\ UNCHANGED <<now, call, saveOld, saveNew, runVars, supVars, restVars>>

\* os.WriteFile: f.Write(data) and f.Close()
WriteFileWrite ==
    /\ savePc = "write"
    /\ disk' = saveNew
    /\ savePc' = "idle"
    /\ UNCHANGED <<now, call, saveOld, saveNew, runVars, supVars, restVars>>

\* the program is killed while a save is in flight
Interrupt ==
    /\ savePc # "idle"
    /\ savePc' = "idle"
    /\ UNCHANGED <<disk, now, call, saveOld, saveNew, runVars, supVars, restVars>>

NextSave ==
    \/ SaveInitializeProgress
    \/ SaveAddResult
    \/ SaveMarkTestFailed
    \/ SaveFinish
    \/ WriteFileOpen
    \/ WriteFileWrite
    \/ Interrupt

SpecSave == InitSave /\ [][NextSave]_vars

\* C9: a save is atomic: whenever a snapshot was on disk before a save, the
\* file holds either that snapshot or the one being saved, at every point of
\* the save and after an interruption of it.
C9_SaveAtomic ==
    saveOld.kind = "state" => (disk = saveOld \/ disk = saveNew)

----------------------------------------------------------------------------
(* The runner (package runner): Run, runBenchmarks, shouldSkipTest,        *)
(* runTestWithRestart, isRetryableError.                                   *)

\* maxFrameworkRestarts of runTestWithRestart
maxFrameworkRestarts == 3

retryablePatterns ==
    <<"signal: killed", "killed", "out of memory",
      "resource temporarily unavailable", "too many open files",
      "connection refused", "connection reset", "timeout",
      "context deadline exceeded">>

UpperLetters == "ABCDEFGHIJKLMNOPQRSTUVWXYZ"

LowerLetters == "abcdefghijklmnopqrstuvwxyz"

ToLowerChar(ch) ==
    IF \E i \in 1..26 : SubSeq(UpperLetters, i, i) = ch
    THEN LET i == CHOOSE k \in 1..26 : SubSeq(UpperLetters, k, k) = ch
         IN SubSeq(LowerLetters, i, i)
    ELSE ch

RECURSIVE ToLower(_)
\* strings.ToLower
ToLower(str) ==
    IF Len(str) = 0 THEN ""
    ELSE ToLowerChar(SubSeq(str, 1, 1)) \o ToLower(SubSeq(str, 2, Len(str)))

\* strings.Contains
Contains(str, substr) ==
    \E i \in 1..(Len(str) + 1 - Len(substr)) :
        SubSeq(str, i, i + Len(substr) - 1) = substr

\* isRetryableError with every non-nil error taken as retryable
AnyErrorRetryable(errStr) == Len(errStr) > 0

\* isRetryableError, on the text of a non-nil error
isRetryableError(errStr) ==
    \E i \in 1..Len(retryablePatterns) :
        Contains(ToLower(errStr), ToLower(retryablePatterns[i]))

\* errors of runTest: "command failed: <exit>, output: <tool output>"
ErrKilled == "command failed: signal: killed, output: "

ErrBadRequest == "command failed: exit status 1, output: bad request"

\* the load tool could not connect to the target
ErrRefused == "command failed: exit status 1, output: unable to connect: Connection refused"

TestErrors == {ErrKilled, ErrBadRequest}

TestOutcomes == {"ok"} \cup TestErrors

\* isRetryableError over the errors the model draws
Retryable == [e \in TestErrors \cup {ErrRefused} |-> isRetryableError(e)]

\* the error of EnsureFrameworkRunning
EnsureErr(frameworkName) == "framework " \o frameworkName \o " restart timed out"

\* the error runTestWithRestart returns after its loop
FailedAfter(c) ==
    "test failed after " \o ToString(c.retryCount - 1) \o " retries and "
        \o ToString(c.frameworkRestarts) \o " framework restarts: "
        \o (IF c.err = "" THEN "%!w(<nil>)" ELSE c.err)

\* the error runTestWithRestart returns when EnsureFrameworkRunning fails with
\* the restart budget used up
Unavailable(frameworkName) ==
    "framework " \o frameworkName \o " unavailable after "
        \o ToString(maxFrameworkRestarts) \o " restart attempts: "
        \o EnsureErr(frameworkName)

\* one iteration of the loop of runTestWithRestart. ensureOk: the result of
\* EnsureFrameworkRunning at its top; test: the result of runTest; healthy:
\* IsFrameworkHealthy after a failure; restartOk: EnsureFrameworkRunning after
\* an unhealthy answer. flow is how the iteration ends.
LoopBody(c, maxRetries, frameworkName, ensureOk, test, healthy, restartOk) ==
    IF ~ensureOk
    THEN IF c.frameworkRestarts < maxFrameworkRestarts
         THEN [flow |-> "continue",
               c |-> [c EXCEPT !.frameworkRestarts = @ + 1, !.waits = @ + 1]]
         ELSE [flow |-> "return",
               c |-> [c EXCEPT !.error = Unavailable(frameworkName)]]
    ELSE IF test = "ok"
    THEN [flow |-> "success",
          c |-> [c EXCEPT !.loadCalls = @ + 1, !.err = ""]]
    ELSE LET c2 == [c EXCEPT !.loadCalls = @ + 1, !.err = test,
                             !.retryCount = @ + 1,
                             !.retryableFails =
                                 IF Retryable[test] THEN @ + 1 ELSE @]
         IN IF ~Retryable[test] THEN [flow |-> "break", c |-> c2]
            ELSE IF c.attempt < maxRetries
            THEN IF ~healthy
                 THEN IF c2.frameworkRestarts < maxFrameworkRestarts
                      THEN IF ~restartOk
                           THEN [flow |-> "continue",
                                 c |-> [c2 EXCEPT !.frameworkRestarts = @ + 1]]
                           ELSE [flow |-> "continue",
                                 c |-> [c2 EXCEPT !.frameworkRestarts = @ + 1,
                                                  !.sleeps = @ + 1]]
                      ELSE [flow |-> "break", c |-> c2]
                 ELSE [flow |-> "continue", c |-> [c2 EXCEPT !.sleeps = @ + 1]]
            ELSE [flow |-> "continue", c |-> c2]

\* runTestWithRestart with a loop that runs one attempt more: attempt <=
\* MaxRetries + 1
runTestWithRestartOneMore(c, maxRetries, frameworkName, ensureOk, test, healthy, restartOk) ==
    LET b == LoopBody(c, maxRetries, frameworkName, ensureOk, test, healthy, restartOk)
        n == [b.c EXCEPT !.attempt = @ + 1]
    IN CASE b.flow = "success" -> [b.c EXCEPT !.status = "ok"]
         [] b.flow = "return" -> [b.c EXCEPT !.status = "fail"]
         [] b.flow = "break" -> [b.c EXCEPT !.status = "fail", !.error = FailedAfter(b.c)]
         [] OTHER -> IF n.attempt <= maxRetries + 1 THEN n
                     ELSE [n EXCEPT !.status = "fail", !.error = FailedAfter(n)]

\* runTestWithRestart: one iteration, the loop's attempt++ and test, and the
\* return after the loop
runTestWithRestart(c, maxRetries, frameworkName, ensureOk, test, healthy, restartOk) ==
    LET b == LoopBody(c, maxRetries, frameworkName, ensureOk, test, healthy, restartOk)
        n == [b.c EXCEPT !.attempt = @ + 1]
    IN CASE b.flow = "success" -> [b.c EXCEPT !.status = "ok"]
         [] b.flow = "return" -> [b.c EXCEPT !.status = "fail"]
         [] b.flow = "break" -> [b.c EXCEPT !.status = "fail", !.error = FailedAfter(b.c)]
         [] OTHER -> IF n.attempt <= maxRetries THEN n
                     ELSE [n EXCEPT !.status = "fail", !.error = FailedAfter(n)]

\* GetResumeInfo, as Run keeps it: nil without a readable state
GetResumeInfo(d) ==
    IF LoadErr(d) \/ LoadNil(d) THEN NilInfo
    ELSE [nil |-> FALSE, CompletedTests |-> d.CompletedTestsList]

\* shouldSkipTest
shouldSkipTest(config, frameworkName, scenarioName, batch, info) ==
    IF info.nil THEN FALSE
    ELSE LET frameworkDisplayName ==
                 IF frameworkName \in DOMAIN config.Frameworks
                 THEN config.Frameworks[frameworkName] ELSE frameworkName
             scenarioDisplayName ==
                 IF scenarioName \in DOMAIN config.Scenarios
                 THEN config.Scenarios[scenarioName] ELSE scenarioName
         IN SeqContains(info.CompletedTests,
                        TestKey(frameworkDisplayName, scenarioDisplayName, batch))

\* the cells the three loops of runBenchmarks can reach next: the batches of
\* a (framework, scenario) in order, the scenarios of a framework and the
\* frameworks in the order the map iteration happens to give
NextCells(config, seen, c) ==
    LET fws == DOMAIN config.Frameworks
        scs == DOMAIN config.Scenarios
        fresh == {f \in fws : \A x \in seen : x[1] # f}
    IN IF c = NoCell THEN {<<f, s, 1>> : f \in fws, s \in scs}
       ELSE IF c[3] < config.Batches THEN {<<c[1], c[2], c[3] + 1>>}
       ELSE IF \E s \in scs : <<c[1], s, 1>> \notin seen
       THEN {<<c[1], s, 1>> : s \in {x \in scs : <<c[1], x, 1>> \notin seen}}
       ELSE {<<f, s, 1>> : f \in fresh, s \in scs}

\* runBenchmarks: the completed count it starts from
InitialCompleted(info) ==
    IF ~info.nil /\ Len(info.CompletedTests) > 0 THEN Len(info.CompletedTests) ELSE 0

\* handleExistingResults: the result files are removed, and parts/ made
\* anew, unless the state file holds a snapshot that is not completed
handleExistingResults(d, csv, dir) ==
    IF ~LoadErr(d) /\ ~LoadNil(d) /\ d.Status # "completed"
    THEN [summary |-> csv, parts |-> dir]
    ELSE [summary |-> NoCsv, parts |-> [exists |-> TRUE, files |-> <<>>]]

\* the rows saveFrameworkCSVWithResults writes for a framework
RowsOf(frameworkName, rs) ==
    LET OfFramework(result) == result.Framework = frameworkName
    IN SelectSeq(rs, OfFramework)

\* the result files written from a list of results
WriteCSVs(config, allResults, dir) ==
    [summary |-> [exists |-> TRUE, rows |-> allResults],
     parts |-> [exists |-> TRUE,
                files |-> [frameworkName \in DOMAIN config.Frameworks |->
                              RowsOf(frameworkName, allResults)]]]

\* saveResults that writes the results of this session only
saveResultsOfSession(d, rs, config, csv, dir, written) ==
    IF LoadErr(d) THEN [ret |-> "err", summary |-> csv, parts |-> dir]
    ELSE IF LoadNil(d) THEN [ret |-> "panic", summary |-> csv, parts |-> dir]
    ELSE IF ~written THEN [ret |-> "err", summary |-> csv, parts |-> dir]
    ELSE [ret |-> "nil"] @@ WriteCSVs(config, rs, dir)

\* saveResults. written: the files could be created and written. LoadState
\* returning (nil, nil) makes state.Results dereference nil: a panic
saveResults(d, rs, config, csv, dir, written) ==
    IF LoadErr(d) THEN [ret |-> "err", summary |-> csv, parts |-> dir]
    ELSE IF LoadNil(d) THEN [ret |-> "panic", summary |-> csv, parts |-> dir]
    ELSE LET allResults == IF Len(d.Results) = 0 THEN rs ELSE d.Results
         IN IF ~written THEN [ret |-> "err", summary |-> csv, parts |-> dir]
            ELSE [ret |-> "nil"] @@ WriteCSVs(config, allResults, dir)

\* the variables of the other components that Run never touches
otherThanRunCsv == <<saveVars, supVars, delayVars, e2eVars, fanVars, parseVars,
                    lockVars>>

\* configurations of the runs of SpecRun
RunConfigs == {CfgPlain(MaxBatches), CfgNarrow(1), CfgAmbig(1)}

\* results of the Tracker's saves during a run
RunSaveOutcomes == {"ok"}

otherThanRun == <<saveVars, supVars, restVars>>

\* the program starts: Run reads the resume info
RunBegin ==
    /\ runPc = "idle"
    /\ sessions < MaxSessions
    /\ \E config \in RunConfigs :
        /\ runCfg' = config
        /\ cellRuns' = [c \in CellsOf(config) |-> 0]
    /\ loadTool' = {}
    /\ sessions' = sessions + 1
    /\ resumeInfo' = GetResumeInfo(disk)
    /\ completedTests' = 0
    /\ visited' = {}
    /\ skipped' = {}
    /\ cur' = NoCell
    /\ cell' = NewCell
    /\ results' = <<>>
    /\ LET files == handleExistingResults(disk, summary, parts)
       IN /\ summary' = files.summary
          /\ parts' = files.parts
    /\ runPc' = "init"
    /\ UNCHANGED <<trackerVars, otherThanRunCsv>>

\* Run: r.tracker.InitializeProgress(r.config)
RunInitializeProgress ==
    /\ runPc = "init"
    /\ \E io \in RunSaveOutcomes :
        disk' = InitializeProgress(disk, runCfg, io, now + 1)
    /\ now' = now + 1
    /\ runPc' = "startAll"
    /\ UNCHANGED <<call, runCfg, sessions, resumeInfo, completedTests, visited, skipped,
                   cur, cell, results, cellRuns, loadTool, otherThanRun>>

\* Run: StartAllFrameworks, which succeeds or fails the run
RunStartAll ==
    /\ runPc = "startAll"
    /\ \E ok \in BOOLEAN : runPc' = IF ok THEN "health" ELSE "failed"
    /\ UNCHANGED <<trackerVars, runCfg, sessions, resumeInfo, completedTests, visited,
                   skipped, cur, cell, results, cellRuns, loadTool, otherThanRun>>

\* Run: WaitForHealthy, then the entry of runBenchmarks
RunWaitForHealthy ==
    /\ runPc = "health"
    /\ \E ok \in BOOLEAN : runPc' = IF ok THEN "matrix" ELSE "failed"
    /\ completedTests' = InitialCompleted(resumeInfo)
    /\ UNCHANGED <<trackerVars, runCfg, sessions, resumeInfo, visited,
                   skipped, cur, cell, results, cellRuns, loadTool, otherThanRun>>

\* runBenchmarks: the next iteration of the loops: skip the cell or call
\* runTestWithRestart
RunNextCell ==
    /\ runPc = "matrix"
    /\ \E c \in NextCells(runCfg, visited, cur) :
        /\ cur' = c
        /\ visited' = visited \cup {c}
        /\ IF shouldSkipTest(runCfg, c[1], c[2], c[3], resumeInfo)
           THEN /\ completedTests' = completedTests + 1
                /\ skipped' = skipped \cup {c}
                /\ UNCHANGED <<runPc, cell, cellRuns>>
           ELSE /\ runPc' = "cell"
                /\ cell' = NewCell
                /\ cellRuns' = [cellRuns EXCEPT ![c] = @ + 1]
                /\ UNCHANGED <<completedTests, skipped>>
    /\ UNCHANGED <<trackerVars, runCfg, sessions, resumeInfo, results, loadTool,
                   otherThanRun>>

\* runTestWithRestart: one iteration of its loop
RunAttempt ==
    /\ runPc = "cell"
    /\ cell.status = "loop"
    /\ \E ensureOk \in BOOLEAN, test \in TestOutcomes, healthy \in BOOLEAN,
          restartOk \in BOOLEAN :
        cell' = runTestWithRestart(cell, runCfg.MaxRetries, cur[1], ensureOk, test,
                                   healthy, restartOk)
    /\ loadTool' = IF cell'.loadCalls > cell.loadCalls THEN loadTool \cup {cur} ELSE loadTool
    /\ UNCHANGED <<trackerVars, runPc, runCfg, sessions, resumeInfo, completedTests,
                   visited, skipped, cur, results, cellRuns, otherThanRun>>

\* runBenchmarks: runTestWithRestart has returned
RunCellReturn ==
    /\ runPc = "cell"
    /\ cell.status # "loop"
    /\ \E io \in RunSaveOutcomes :
        IF cell.status = "fail"
        THEN /\ disk' = MarkTestFailed(disk, cur[1], cur[2], cur[3], cell.error, io,
                                       now + 1)
             /\ runPc' = "failed"
             /\ UNCHANGED <<results, completedTests>>
        ELSE LET result == TestResult(runCfg, cur)
             IN /\ results' = Append(results, result)
                /\ disk' = AddResult(disk, result, io, now + 1)
                /\ completedTests' = completedTests + 1
                /\ runPc' = "matrix"
    /\ now' = now + 1
    /\ cell' = NewCell
    /\ UNCHANGED <<call, runCfg, sessions, resumeInfo, visited, skipped, cur,
                   cellRuns, loadTool, otherThanRun>>

\* runBenchmarks: the loops are over
RunLoopEnd ==
    /\ runPc = "matrix"
    /\ NextCells(runCfg, visited, cur) = {}
    /\ runPc' = "save"
    /\ UNCHANGED <<trackerVars, runCfg, sessions, resumeInfo, completedTests, visited,
                   skipped, cur, cell, results, cellRuns, loadTool, otherThanRun>>

\* Run with Shutdown left out: saveResults is followed by Finish
RunSaveResultsNoShutdown ==
    /\ runPc = "save"
    /\ \E written \in BOOLEAN :
        LET saved == saveResults(disk, results, runCfg, summary, parts, written)
        IN /\ runPc' = CASE saved.ret = "nil" -> "finish"
                          [] saved.ret = "err" -> "failed"
                          [] OTHER -> "crashed"
           /\ summary' = saved.summary
           /\ parts' = saved.parts
    /\ UNCHANGED <<trackerVars, runCfg, sessions, resumeInfo, completedTests, visited,
                   skipped, cur, cell, results, cellRuns, loadTool, otherThanRunCsv>>

\* Run: saveResults, which succeeds or fails the run
RunSaveResults ==
    /\ runPc = "save"
    /\ \E written \in BOOLEAN :
        LET saved == saveResults(disk, results, runCfg, summary, parts, written)
        IN /\ runPc' = CASE saved.ret = "nil" -> "shutdown"
                          [] saved.ret = "err" -> "failed"
                          [] OTHER -> "crashed"
           /\ summary' = saved.summary
           /\ parts' = saved.parts
    /\ UNCHANGED <<trackerVars, runCfg, sessions, resumeInfo, completedTests, visited,
                   skipped, cur, cell, results, cellRuns, loadTool, otherThanRunCsv>>

\* Run: processManager.Shutdown
RunShutdown ==
    /\ runPc = "shutdown"
    /\ runPc' = "finish"
    /\ UNCHANGED <<trackerVars, runCfg, sessions, resumeInfo, completedTests, visited,
                   skipped, cur, cell, results, cellRuns, loadTool, otherThanRun>>

\* Run: r.tracker.Finish()
RunFinish ==
    /\ runPc = "finish"
    /\ \E io \in RunSaveOutcomes :
        disk' = Finish(disk, io, now + 1)
    /\ now' = now + 1
    /\ runPc' = "done"
    /\ UNCHANGED <<call, runCfg, sessions, resumeInfo, completedTests, visited, skipped,
                   cur, cell, results, cellRuns, loadTool, otherThanRun>>

\* the program ends: Run has returned, or the program is killed mid-run
RunExit ==
    /\ runPc # "idle"
    /\ runPc' = "idle"
    /\ runCfg' = NoCfg
    /\ resumeInfo' = NilInfo
    /\ completedTests' = 0
    /\ visited' = {}
    /\ skipped' = {}
    /\ cur' = NoCell
    /\ cell' = NewCell
    /\ results' = <<>>
    /\ cellRuns' = <<>>
    /\ loadTool' = {}
    /\ UNCHANGED <<trackerVars, sessions, otherThanRun>>

InitRun ==
    /\ disk = NoFile
    /\ now = 0
    /\ call = NoCall
    /\ IdleSave
    /\ IdleRun
    /\ IdleSup
    /\ IdleDelay
    /\ IdleE2E
    /\ IdleCsv
    /\ IdleFan
    /\ IdleParse
    /\ IdleLock

NextRun ==
    \/ RunBegin
    \/ RunInitializeProgress
    \/ RunStartAll
    \/ RunWaitForHealthy
    \/ RunNextCell
    \/ RunAttempt
    \/ RunCellReturn
    \/ RunLoopEnd
    \/ RunSaveResults
    \/ RunShutdown
    \/ RunFinish
    \/ RunExit

SpecRun == InitRun /\ [][NextRun]_vars

\* the keys of the completed list that are keys of cells of the matrix
KeysOfMatrix(config, info) ==
    {k \in SeqToSet(info.CompletedTests) : \E c \in CellsOf(config) : CellKey(config, c) = k}

\* C1: idempotent resume. When runBenchmarks has gone through the matrix with
\* no cell failing, and the snapshot it resumed from held N keys of cells of
\* the matrix, it has skipped exactly N cells, each with its key in the list
\* and with no run of the load tool, and has executed each of the other
\* total-N cells exactly once.
C1_IdempotentResume ==
    (runPc = "save" /\ ~resumeInfo.nil) =>
        LET N == Cardinality(KeysOfMatrix(runCfg, resumeInfo))
        IN /\ Cardinality(skipped) = N
           /\ \A c \in skipped :
                /\ SeqContains(resumeInfo.CompletedTests, CellKey(runCfg, c))
                /\ c \notin loadTool
                /\ cellRuns[c] = 0
           /\ Cardinality(CellsOf(runCfg) \ skipped) = TotalTestsOf(runCfg) - N
           /\ \A c \in CellsOf(runCfg) \ skipped : cellRuns[c] = 1

\* C35: Run reaches r.tracker.Finish() only after the matrix loop ended with
\* every cell executed successfully or skipped; the snapshot Finish leaves is
\* then completed, also in a run that skipped every cell and in a run whose
\* snapshot was seeded from a completed one.
C35_FinishCompletes ==
    [][(runPc = "finish" /\ runPc' = "done") =>
        /\ disk'.kind = "state"
        /\ disk'.Status = "completed"]_vars

\* the cells of the matrix that the completed list of a snapshot marks
MarkedCells(config, d) ==
    IF d.kind # "state" THEN {}
    ELSE {c \in CellsOf(config) : SeqContains(d.CompletedTestsList, CellKey(config, c))}

\* C25: two different cells of the matrix of a run never have the same key,
\* so the cells the snapshot marks as completed are as many as the keys of the
\* matrix it holds, and the cells a run skips are as many as the keys of the
\* matrix it resumed from: no key marks or skips a second cell.
C25_KeyInjective ==
    /\ \A c1, c2 \in CellsOf(runCfg) :
            CellKey(runCfg, c1) = CellKey(runCfg, c2) => c1 = c2
    /\ runPc \notin {"idle", "init"} =>
            /\ Cardinality(MarkedCells(runCfg, disk))
                    = Cardinality(KeysOfMatrix(runCfg, GetResumeInfo(disk)))
            /\ Cardinality(skipped) <= Cardinality(KeysOfMatrix(runCfg, resumeInfo))

\* the place of a phase of Run in the order of its phases
PhaseOrder ==
    [init |-> 1, startAll |-> 2, health |-> 3, matrix |-> 4, cell |-> 4, save |-> 5,
     shutdown |-> 6, finish |-> 7, done |-> 8]

\* C26: Run goes through its phases in order: InitializeProgress,
\* StartAllFrameworks, WaitForHealthy, the matrix, saveResults, Shutdown,
\* Finish. Every step of a run stays in its phase, moves to the next one, or
\* ends the run (a failed phase, or the end of the program); the snapshot is
\* initialised in the first phase and finished in the last; the load tool runs
\* only inside the matrix, which is entered only from a WaitForHealthy that
\* succeeded after a StartAllFrameworks that succeeded; and a run that failed
\* or is done only returns.
C26_PhaseOrder ==
    [][/\ runPc = "idle" => runPc' \in {"idle", "init"}
       /\ runPc \in {"failed", "done"} => runPc' \in {runPc, "idle"}
       /\ (runPc \in DOMAIN PhaseOrder /\ runPc' \in DOMAIN PhaseOrder) =>
            \/ PhaseOrder[runPc'] = PhaseOrder[runPc]
            \/ PhaseOrder[runPc'] = PhaseOrder[runPc] + 1
       /\ runPc' = "failed" => runPc \in {"startAll", "health", "cell", "save", "failed"}
       /\ loadTool' # loadTool /\ runPc' # "idle" => runPc = "cell" /\ runPc' = "cell"
       /\ (disk' # disk) =>
            runPc \in {"init", "cell", "finish"}]_vars

\* a run is done: it went through every phase, and ran the load tool
C26_Witness ==
    /\ runPc = "done"
    /\ loadTool # {}
    /\ disk.kind = "state"
    /\ disk.Status = "completed"

\* s is a prefix of t
IsPrefix(s, t) == Len(s) <= Len(t) /\ SubSeq(t, 1, Len(s)) = s

----------------------------------------------------------------------------
(* SpecCell: runTestWithRestart on one cell, for every Benchmark.MaxRetries *)
(* up to MaxRetriesBound.                                                   *)

CellConfigs == {Config([f1 |-> "a"], [s1 |-> "p"], 1, r) : r \in 1..MaxRetriesBound}

InitCell ==
    /\ disk = NoFile
    /\ now = 0
    /\ call = NoCall
    /\ IdleSave
    /\ runPc = "cell"
    /\ runCfg \in CellConfigs
    /\ sessions = 1
    /\ resumeInfo = NilInfo
    /\ completedTests = 0
    /\ visited = {<<"f1", "s1", 1>>}
    /\ skipped = {}
    /\ cur = <<"f1", "s1", 1>>
    /\ cell = NewCell
    /\ results = <<>>
    /\ cellRuns = [c \in CellsOf(runCfg) |-> 1]
    /\ loadTool = {}
    /\ IdleSup
    /\ IdleDelay
    /\ IdleE2E
    /\ IdleCsv
    /\ IdleFan
    /\ IdleParse
    /\ IdleLock

NextCell == RunAttempt

SpecCell == InitCell /\ [][NextCell]_vars

\* C10: a cell that failed, and whose every run of the load tool returned a
\* retryable error, has run the load tool exactly MaxRetries + 1 times, and
\* its error names MaxRetries retries and the number of framework restarts.
C10_ExhaustiveRetry ==
    (/\ runPc = "cell"
     /\ cell.status = "fail"
     /\ cell.loadCalls >= 1
     /\ cell.retryableFails = cell.loadCalls)
    => /\ cell.loadCalls = runCfg.MaxRetries + 1
       /\ cell.error = "test failed after " \o ToString(runCfg.MaxRetries)
                        \o " retries and " \o ToString(cell.frameworkRestarts)
                        \o " framework restarts: " \o cell.err

\* C12: when runTestWithRestart has failed for a cell, the next step of the
\* run (unless the program is killed first) appends exactly one entry for that
\* cell to the failed tests of the snapshot, runs no load tool and reaches no
\* further cell, and leaves Run failed; a failed Run only returns.
C12_AbortAfterFailure ==
    [][/\ (runPc = "cell" /\ cell.status = "fail" /\ runPc' # "idle") =>
            /\ runPc' = "failed"
            /\ disk.kind = "state" =>
                    /\ disk'.kind = "state"
                    /\ disk'.FailedTests =
                            Append(disk.FailedTests,
                                   TestKey(cur[1], cur[2], cur[3]) \o ": " \o cell.error)
            /\ visited' = visited
            /\ loadTool' = loadTool
            /\ cellRuns' = cellRuns
            /\ results' = results
       /\ runPc = "failed" => runPc' = "idle"]_vars

\* Run has failed on a cell with other cells of the matrix not yet reached, and
\* the failure is in the snapshot
C12_Witness ==
    /\ runPc = "failed"
    /\ visited # {}
    /\ visited # CellsOf(runCfg)
    /\ disk.kind = "state"
    /\ Len(disk.FailedTests) > 0
    /\ cellRuns[cur] = 1

\* C11: a cell whose first run of the load tool returns an error that matches
\* no retryable pattern has failed at once: that run is its only one, it slept
\* no backoff, and it counted no framework restart beyond those of the ensure
\* steps that came before the run (one per attempt used up before it).
C11_ImmediateFail ==
    (/\ runPc = "cell"
     /\ cell.retryCount = 1
     /\ cell.err = ErrBadRequest)
    => /\ ~isRetryableError(ErrBadRequest)
       /\ cell.status = "fail"
       /\ cell.loadCalls = 1
       /\ cell.retryableFails = 0
       /\ cell.sleeps = 0
       /\ cell.frameworkRestarts = cell.attempt
       /\ cell.error = FailedAfter(cell)

\* the first run of the load tool, at attempt 0, returned "bad request"
C11_Witness ==
    /\ runPc = "cell"
    /\ cell.err = ErrBadRequest
    /\ cell.retryCount = 1
    /\ cell.attempt = 0
    /\ cell.status = "fail"

\* C40: while runBenchmarks runs, its count of completed cells is at most the
\* number of cells of the matrix, and when its loops are over the count is
\* that number, on a first run and on a resumed one.
C40_CountWithinTotal ==
    /\ runPc \in {"matrix", "cell", "save"} => completedTests <= TotalTestsOf(runCfg)
    /\ runPc = "save" => completedTests = TotalTestsOf(runCfg)

\* C38: in every iteration of runTestWithRestart the load tool has run at most
\* Benchmark.MaxRetries + 1 times and at most once more than before, the
\* framework restarts counted are at most 3, an iteration whose
\* EnsureFrameworkRunning at the top fails runs no load tool, and the
\* iteration of the final attempt (attempt = MaxRetries) sleeps no backoff.
C38_AttemptBounds ==
    [][(runPc = "cell" /\ cell.status = "loop" /\ cell' # cell) =>
        /\ cell'.loadCalls <= runCfg.MaxRetries + 1
        /\ cell'.loadCalls <= cell.loadCalls + 1
        /\ cell'.loadCalls <= cell.attempt + 1
        /\ cell'.frameworkRestarts <= maxFrameworkRestarts
        /\ cell.attempt = runCfg.MaxRetries => cell'.sleeps = cell.sleeps
        /\ \A test \in TestOutcomes, healthy \in BOOLEAN, restartOk \in BOOLEAN :
              cell' = runTestWithRestart(cell, runCfg.MaxRetries, cur[1], FALSE, test,
                                         healthy, restartOk)
              => cell'.loadCalls = cell.loadCalls]_vars

\* a cell that used every attempt: the ensure step of one failed, the load
\* tool ran in all the others, three framework restarts were counted, and a
\* backoff was slept after every run but the last
C38_Witness ==
    /\ runPc = "cell"
    /\ cell.status = "fail"
    /\ cell.attempt = runCfg.MaxRetries + 1
    /\ cell.waits = 1
    /\ cell.loadCalls = runCfg.MaxRetries
    /\ cell.frameworkRestarts = maxFrameworkRestarts
    /\ cell.sleeps = cell.loadCalls - 1
    /\ cell.sleeps > 0

\* C24: an iteration of runTestWithRestart whose EnsureFrameworkRunning fails
\* does not run the load tool; while fewer than 3 framework restarts are used
\* it counts one more and goes back to the ensure step, and with the budget
\* used up the cell fails with the error "framework ... unavailable after 3
\* restart attempts", whatever Benchmark.MaxRetries is.
C24_EnsureRetry ==
    [][\A test \in TestOutcomes, healthy \in BOOLEAN, restartOk \in BOOLEAN :
        (/\ runPc = "cell"
         /\ cell.status = "loop"
         /\ cell' = runTestWithRestart(cell, runCfg.MaxRetries, cur[1], FALSE, test,
                                       healthy, restartOk))
        => /\ cell'.loadCalls = cell.loadCalls
           /\ loadTool' = loadTool
           /\ IF cell.frameworkRestarts < maxFrameworkRestarts
              THEN /\ cell'.status = "loop"
                   /\ cell'.frameworkRestarts = cell.frameworkRestarts + 1
              ELSE /\ cell'.status = "fail"
                   /\ cell'.error = Unavailable(cur[1])]_vars

----------------------------------------------------------------------------
(* The delay monitorProcess sleeps before a restart (manager.go:262-267).  *)
(* A time.Duration is an integer number of ticks, Second of them to the    *)
(* second; BackoffMultiplier, a float64, is a number of MultiplierDen-ths.  *)
(* The ticks are coarser than the multiplier, as nanoseconds are coarser   *)
(* than a float64, so that the conversion to time.Duration can truncate.   *)

\* ticks in one second
Second == 4

\* BackoffMultiplier is counted in units of 1/MultiplierDen
MultiplierDen == 8

\* the largest restart_delay_seconds and max_restart_delay_seconds drawn
MaxSeconds == 3

\* the largest max_restarts drawn
MaxDelayRestarts == 4

\* types.ProcessConfig as read from the configuration file: nothing validates
\* its numbers, so zero and negative ones occur
ProcessConfigs ==
    [MaxRestarts : 0 .. MaxDelayRestarts,
     RestartDelay : -1 .. MaxSeconds,
     BackoffMultiplier : {-MultiplierDen, 0, 1, MultiplierDen \div 2, MultiplierDen,
                          3 * MultiplierDen},
     MaxRestartDelay : -1 .. MaxSeconds]

RestartPolicyFromConfig(config) ==
    [MaxRestarts |-> config.MaxRestarts,
     RestartDelay |-> config.RestartDelay * Second,
     BackoffMultiplier |-> config.BackoffMultiplier,
     MaxRestartDelay |-> config.MaxRestartDelay * Second]

\* the values of DefaultRestartPolicy: 10 restarts, 5 s, 1.5, 60 s
DefaultRestartPolicy ==
    [MaxRestarts |-> 10, RestartDelay |-> 5 * Second,
     BackoffMultiplier |-> (3 * MultiplierDen) \div 2,
     MaxRestartDelay |-> 60 * Second]

\* time.Duration(x) of a float64 x = num / den: the fraction is dropped
Truncate(num, den) ==
    IF num >= 0 THEN num \div den ELSE -((-num) \div den)

\* the delay without the comparison with MaxRestartDelay
DelayUncapped(p, RestartCount) ==
    Truncate(p.RestartDelay * (MultiplierDen + RestartCount * p.BackoffMultiplier),
             MultiplierDen)

\* delay := time.Duration(float64(RestartDelay) * (1 + float64(RestartCount) *
\* BackoffMultiplier)), cut to MaxRestartDelay when larger
Delay(p, RestartCount) ==
    LET d == Truncate(p.RestartDelay
                        * (MultiplierDen + RestartCount * p.BackoffMultiplier),
                      MultiplierDen)
    IN IF d > p.MaxRestartDelay THEN p.MaxRestartDelay ELSE d

otherThanDelay == <<trackerVars, saveVars, runVars, supVars, e2eVars, csvVars, fanVars,
                   parseVars, lockVars>>

\* monitorProcess after an exit of the process: it gives up at MaxRestarts,
\* else computes the delay, sleeps, and restarts with RestartCount + 1
MonitorDelay ==
    /\ restarts < policy.MaxRestarts
    /\ delay' = Delay(policy, restarts)
    /\ restarts' = restarts + 1
    /\ UNCHANGED <<policy, otherThanDelay>>

InitDelay ==
    /\ disk = NoFile
    /\ now = 0
    /\ call = NoCall
    /\ IdleSave
    /\ IdleRun
    /\ IdleSup
    /\ policy \in {RestartPolicyFromConfig(c) : c \in ProcessConfigs}
                    \cup {DefaultRestartPolicy}
    /\ restarts = 0
    /\ delay = 0
    /\ IdleE2E
    /\ IdleCsv
    /\ IdleFan
    /\ IdleParse
    /\ IdleLock

NextDelay == MonitorDelay

SpecDelay == InitDelay /\ [][NextDelay]_vars

\* the smaller of two integers
Min(a, b) == IF a < b THEN a ELSE b

----------------------------------------------------------------------------
(* The process manager (internal/process/manager.go) supervising one       *)
(* target. The steps of a goroutine are the sections of its code between   *)
(* two accesses to shared state; StartFramework, StopFramework and         *)
(* stopProcessOnly hold their lock from entry to return and are one step.  *)
(* A process whose context is cancelled is killed by exec.CommandContext.  *)

otherThanSup == <<trackerVars, saveVars, runVars, restVars>>

\* the context is done: cancelled itself, or through its parent pm.ctx
Done(ctx) == ctx \in cancelled \/ 0 \in cancelled

\* the OS processes after the contexts in ctxs are cancelled and process pid
\* (0 for none) is signalled and killed
Killed(procs, ctxs, pid) ==
    [p \in DOMAIN procs |->
        IF p = pid \/ procs[p].ctx \in ctxs \/ 0 \in ctxs
        THEN [procs[p] EXCEPT !.alive = FALSE] ELSE procs[p]]

\* cmd.Start of startProcess can succeed: the binary exists, the context of
\* the command is not done
CanSpawn(ctx) == ~Done(ctx) /\ Len(osProcs) < MaxProcs

NewProc(ctx, by) == [alive |-> TRUE, ctx |-> ctx, by |-> by]

\* the live OS processes of the target
Live == {p \in DOMAIN osProcs : osProcs[p].alive}

\* StartFramework past its check of the state: a new context and a new record
\* replace the registered one, the process is spawned, the monitor started
StartFresh ==
    /\ nctx' = nctx + 1
    /\ processes' = Len(records) + 1
    /\ \E started \in BOOLEAN :
        IF started /\ CanSpawn(nctx + 1)
        THEN /\ osProcs' = Append(osProcs, NewProc(nctx + 1, "start"))
             /\ records' = Append(records,
                    [Cmd |-> Len(osProcs) + 1, Process |-> Len(osProcs) + 1,
                     State |-> "running", RestartCount |-> 0, LastError |-> FALSE,
                     ctx |-> nctx + 1])
             /\ monitors' = Append(monitors, [pc |-> "top", cmd |-> 0])
        ELSE /\ records' = Append(records,
                    [Cmd |-> 0, Process |-> 0, State |-> "failed",
                     RestartCount |-> 0, LastError |-> TRUE, ctx |-> nctx + 1])
             /\ monitors' = Append(monitors, [pc |-> "none", cmd |-> 0])
             /\ UNCHANGED osProcs

\* AlreadyStarted without the comparison with ProcessStateStarting
AlreadyRunning ==
    processes # 0 /\ records[processes].State = "running"

\* StartFramework refuses a target that is running or starting
AlreadyStarted ==
    processes # 0 /\ records[processes].State \in {"running", "starting"}

\* the name of the target in config.Frameworks, and a name that is not in it
Target == "f1"

Unconfigured == "f0"

\* what StartFramework or StopFramework returned, as call number
\* apiCalls + 1 of the API: an error or nil, and the branch that returned
Returned(op, frameworkName, err, why) ==
    api' = [op |-> op, frameworkName |-> frameworkName, err |-> err, why |-> why,
            n |-> apiCalls + 1]

\* StartFramework: an error for a name that is not configured and for a
\* target that is running or starting, else the start, whose error (a missing
\* binary, a cmd.Start that fails) is returned
StartFramework(frameworkName) ==
    /\ apiCalls < MaxApiCalls
    /\ apiCalls' = apiCalls + 1
    /\ IF frameworkName # Target
       THEN /\ Returned("StartFramework", frameworkName, TRUE, "not configured")
            /\ UNCHANGED <<processes, records, osProcs, nctx, monitors>>
       ELSE IF AlreadyStarted
       THEN /\ Returned("StartFramework", frameworkName, TRUE, "already")
            /\ UNCHANGED <<processes, records, osProcs, nctx, monitors>>
       ELSE /\ Len(records) < MaxRecords
            /\ StartFresh
            /\ Returned("StartFramework", frameworkName, Len(osProcs') = Len(osProcs),
                        "start")
    /\ UNCHANGED <<cancelled, shuttingDown, ensure, shutdownPc, otherThanSup>>

\* the effect of StopFramework on the record of the target
Stopped(r) ==
    /\ cancelled' = cancelled \cup {records[r].ctx}
    /\ osProcs' = Killed(osProcs, {records[r].ctx}, records[r].Process)
    /\ records' = [records EXCEPT ![r].State = "stopped"]

\* StopFramework: an error without a record, nil at once on a stopped
\* target, else cancel the context, end the process, State = Stopped
StopFramework ==
    /\ apiCalls < MaxApiCalls
    /\ apiCalls' = apiCalls + 1
    /\ IF processes = 0
       THEN /\ Returned("StopFramework", Target, TRUE, "not found")
            /\ UNCHANGED <<records, cancelled, osProcs>>
       ELSE IF records[processes].State = "stopped"
       THEN /\ Returned("StopFramework", Target, FALSE, "already")
            /\ UNCHANGED <<records, cancelled, osProcs>>
       ELSE /\ Returned("StopFramework", Target, FALSE, "stop")
            /\ Stopped(processes)
    /\ UNCHANGED <<processes, nctx, shuttingDown, monitors, ensure, shutdownPc,
                   otherThanSup>>

\* an OS process exits by itself or is killed from outside
ProcessExit ==
    /\ \E p \in Live : osProcs' = [osProcs EXCEPT ![p].alive = FALSE]
    /\ UNCHANGED <<processes, records, cancelled, nctx, shuttingDown, monitors,
                   ensure, shutdownPc, apiCalls, api, otherThanSup>>

\* monitorProcess moves to pc, with cmd the command it holds
MonitorAt(r, pc, cmd) == monitors' = [monitors EXCEPT ![r] = [pc |-> pc, cmd |-> cmd]]

monitorOthers == <<processes, cancelled, nctx, shuttingDown, ensure, shutdownPc, apiCalls,
                   api, otherThanSup>>

\* monitorProcess: the top of the loop: return when the context is done, else
\* read managedProc.Cmd
MonitorTop(r) ==
    /\ monitors[r].pc = "top"
    /\ IF Done(records[r].ctx) THEN MonitorAt(r, "done", 0)
       ELSE IF records[r].Cmd = 0 THEN MonitorAt(r, "top", 0)
       ELSE MonitorAt(r, "wait", records[r].Cmd)
    /\ UNCHANGED <<records, osProcs, monitorOthers>>

\* monitorProcess: cmd.Wait returns, then the read of pm.shuttingDown
MonitorWait(r) ==
    /\ monitors[r].pc = "wait"
    /\ ~osProcs[monitors[r].cmd].alive
    /\ IF shuttingDown THEN MonitorAt(r, "done", 0)
       ELSE MonitorAt(r, "ctx", monitors[r].cmd)
    /\ UNCHANGED <<records, osProcs, monitorOthers>>

\* monitorProcess: the second look at the contexts
MonitorCtx(r) ==
    /\ monitors[r].pc = "ctx"
    /\ IF Done(records[r].ctx) THEN MonitorAt(r, "done", 0)
       ELSE MonitorAt(r, "exited", monitors[r].cmd)
    /\ UNCHANGED <<records, osProcs, monitorOthers>>

\* monitorProcess: mark the record failed unless it is restarting, then
\* return if the restarts are used up
MonitorExited(r) ==
    /\ monitors[r].pc = "exited"
    /\ records' = IF records[r].State # "restarting"
                  THEN [records EXCEPT ![r].State = "failed", ![r].LastError = TRUE]
                  ELSE records
    /\ IF records[r].RestartCount >= MaxRestarts THEN MonitorAt(r, "done", 0)
       ELSE MonitorAt(r, "sleep", monitors[r].cmd)
    /\ UNCHANGED <<osProcs, monitorOthers>>

\* monitorProcess: the wait before the restart: the timer fires, or a context
\* is done; with both ready, select takes either
MonitorSleep(r) ==
    /\ monitors[r].pc = "sleep"
    /\ \E timer \in BOOLEAN :
        IF Done(records[r].ctx) /\ ~timer THEN MonitorAt(r, "done", 0)
        ELSE MonitorAt(r, "restart", monitors[r].cmd)
    /\ UNCHANGED <<records, osProcs, monitorOthers>>

\* monitorProcess: State = Restarting, RestartCount++
MonitorRestart(r) ==
    /\ monitors[r].pc = "restart"
    /\ records' = [records EXCEPT ![r].State = "restarting", ![r].RestartCount = @ + 1]
    /\ MonitorAt(r, "spawn", monitors[r].cmd)
    /\ UNCHANGED <<osProcs, monitorOthers>>

\* monitorProcess returning when its startProcess fails
MonitorSpawnAbort(r) ==
    /\ monitors[r].pc = "spawn"
    /\ \E started \in BOOLEAN :
        IF started /\ CanSpawn(records[r].ctx)
        THEN /\ osProcs' = Append(osProcs, NewProc(records[r].ctx, "monitor"))
             /\ MonitorAt(r, "set", Len(osProcs) + 1)
             /\ UNCHANGED records
        ELSE /\ records' = [records EXCEPT ![r].State = "failed", ![r].LastError = TRUE]
             /\ MonitorAt(r, "done", 0)
             /\ UNCHANGED osProcs
    /\ UNCHANGED monitorOthers

\* monitorProcess: startProcess up to cmd.Start; on its failure the record is
\* failed and the loop continues
MonitorSpawn(r) ==
    /\ monitors[r].pc = "spawn"
    /\ \E started \in BOOLEAN :
        IF started /\ CanSpawn(records[r].ctx)
        THEN /\ osProcs' = Append(osProcs, NewProc(records[r].ctx, "monitor"))
             /\ MonitorAt(r, "set", Len(osProcs) + 1)
             /\ UNCHANGED records
        ELSE /\ records' = [records EXCEPT ![r].State = "failed", ![r].LastError = TRUE]
             /\ MonitorAt(r, "top", 0)
             /\ UNCHANGED osProcs
    /\ UNCHANGED monitorOthers

\* monitorProcess: startProcess after cmd.Start: Cmd, Process, State = Running
MonitorSet(r) ==
    /\ monitors[r].pc = "set"
    /\ records' = [records EXCEPT ![r].Cmd = monitors[r].cmd,
                                  ![r].Process = monitors[r].cmd,
                                  ![r].State = "running"]
    /\ MonitorAt(r, "top", 0)
    /\ UNCHANGED <<osProcs, monitorOthers>>

\* IsFrameworkHealthy: the record is running or starting and the probe of
\* the health endpoint, which only a live process can answer, succeeds
IsFrameworkHealthy(probe) ==
    /\ processes # 0
    /\ records[processes].State \in {"running", "starting"}
    /\ probe
    /\ Live # {}

\* EnsureFrameworkRunning moves to pc, with cmd the command it started
EnsureAt(pc, cmd) == ensure' = [ensure EXCEPT !.pc = pc, !.cmd = cmd]

\* EnsureFrameworkRunning returns ret ("nil" or "err") on the path it took
EnsureReturn(ret, path) ==
    ensure' = [ensure EXCEPT !.pc = "idle", !.cmd = 0, !.ret = ret, !.path = path]

\* EnsureFrameworkRunning returns nil after a health probe that succeeded
EnsureHealthy(path) ==
    ensure' = [ensure EXCEPT !.pc = "idle", !.cmd = 0, !.ret = "nil", !.path = path,
                             !.probed = TRUE]

\* the polls of EnsureFrameworkRunning while a restart is in progress
ensurePolls == 30

ensureOthers == <<processes, cancelled, shuttingDown, monitors, shutdownPc, otherThanSup>>

\* the first health check of EnsureFrameworkRunning: return nil when healthy
EnsureBegin ==
    /\ ensure.pc = "idle"
    /\ \E probe \in BOOLEAN :
        IF IsFrameworkHealthy(probe)
        THEN ensure' = [NoEnsure EXCEPT !.ret = "nil", !.path = "healthy",
                                        !.probed = TRUE]
        ELSE ensure' = [NoEnsure EXCEPT !.pc = "lookup"]
    /\ UNCHANGED <<records, osProcs, nctx>>

\* EnsureFrameworkRunning called through the API
EnsureFrameworkRunning ==
    /\ apiCalls < MaxApiCalls
    /\ apiCalls' = apiCalls + 1
    /\ EnsureBegin
    /\ UNCHANGED <<api, ensureOthers>>

\* EnsureFrameworkRunning: the lookup of the record and the read of its State
EnsureLookup ==
    /\ ensure.pc = "lookup"
    /\ IF processes = 0 THEN EnsureAt("fresh", 0)
       ELSE IF records[processes].State = "restarting" THEN EnsureAt("poll", 0)
       ELSE EnsureAt("stop", 0)
    /\ UNCHANGED <<records, osProcs, nctx, apiCalls, api, ensureOthers>>

\* EnsureFrameworkRunning: the target has no record: it returns what
\* StartFramework returns
EnsureFresh ==
    /\ ensure.pc = "fresh"
    /\ Len(records) < MaxRecords
    /\ IF AlreadyStarted
       THEN /\ EnsureReturn("err", "fresh")
            /\ UNCHANGED <<processes, records, osProcs, nctx, monitors>>
       ELSE /\ StartFresh
            /\ ensure' = [ensure EXCEPT
                            !.pc = "idle", !.cmd = 0, !.path = "fresh",
                            !.ret = IF Len(osProcs') > Len(osProcs) THEN "nil" ELSE "err",
                            !.spawned = Len(osProcs') > Len(osProcs)]
    /\ UNCHANGED <<cancelled, shuttingDown, shutdownPc, apiCalls, api, otherThanSup>>

\* EnsureFrameworkRunning: a restart is in progress: one poll of
\* IsFrameworkHealthy, a second after the one before; the thirtieth poll
\* that fails ends the call with the timeout error
EnsurePoll ==
    /\ ensure.pc = "poll"
    /\ \E probe \in BOOLEAN :
        IF IsFrameworkHealthy(probe)
        THEN ensure' = [ensure EXCEPT !.pc = "idle", !.cmd = 0, !.ret = "nil",
                                      !.path = "poll", !.probed = TRUE,
                                      !.polls = @ + 1]
        ELSE IF ensure.polls + 1 < ensurePolls
        THEN ensure' = [ensure EXCEPT !.polls = @ + 1]
        ELSE ensure' = [ensure EXCEPT !.pc = "idle", !.cmd = 0, !.ret = "err",
                                      !.path = "poll", !.polls = @ + 1]
    /\ UNCHANGED <<records, osProcs, nctx, apiCalls, api, ensureOthers>>

\* stopProcessOnly: signal and kill managedProc.Process, State = Failed
stopProcessOnly ==
    /\ ensure.pc = "stop"
    /\ IF processes = 0 THEN UNCHANGED <<records, osProcs>>
       ELSE /\ osProcs' = Killed(osProcs, {}, records[processes].Process)
            /\ records' = [records EXCEPT ![processes].State = "failed"]
    /\ EnsureAt("start", 0)
    /\ UNCHANGED <<nctx, apiCalls, api, ensureOthers>>

\* startProcessForRestart: a new context on the record, State = Starting
startProcessForRestart ==
    /\ ensure.pc = "start"
    /\ IF processes = 0
       THEN /\ EnsureReturn("err", "forced")
            /\ UNCHANGED <<records, nctx>>
       ELSE /\ nctx' = nctx + 1
            /\ records' = [records EXCEPT ![processes].ctx = nctx + 1,
                                          ![processes].State = "starting"]
            /\ EnsureAt("spawn", 0)
    /\ UNCHANGED <<osProcs, apiCalls, api, ensureOthers>>

\* startProcessForRestart: startProcess up to cmd.Start; on its failure the
\* record is failed and EnsureFrameworkRunning returns the error
EnsureSpawn ==
    /\ ensure.pc = "spawn"
    /\ \E started \in BOOLEAN :
        IF started /\ CanSpawn(records[processes].ctx)
        THEN /\ osProcs' = Append(osProcs, NewProc(records[processes].ctx, "ensure"))
             /\ ensure' = [ensure EXCEPT !.pc = "set", !.cmd = Len(osProcs) + 1,
                                         !.spawned = TRUE]
             /\ UNCHANGED records
        ELSE /\ records' = [records EXCEPT ![processes].State = "failed",
                                           ![processes].LastError = TRUE]
             /\ EnsureReturn("err", "forced")
             /\ UNCHANGED osProcs
    /\ UNCHANGED <<nctx, apiCalls, api, ensureOthers>>

\* startProcessForRestart: startProcess after cmd.Start: Cmd, Process,
\* State = Running
EnsureSet ==
    /\ ensure.pc = "set"
    /\ records' = [records EXCEPT ![processes].Cmd = ensure.cmd,
                                  ![processes].Process = ensure.cmd,
                                  ![processes].State = "running"]
    /\ EnsureAt("health", ensure.cmd)
    /\ UNCHANGED <<osProcs, nctx, apiCalls, api, ensureOthers>>

\* waitForFrameworkHealthy after the forced restart: the health endpoint
\* answers within the thirty seconds, or the call returns the error
EnsureWaitHealthy ==
    /\ ensure.pc = "health"
    /\ \E probe \in BOOLEAN :
        IF probe /\ Live # {}
        THEN EnsureHealthy("forced")
        ELSE EnsureReturn("err", "forced")
    /\ UNCHANGED <<records, osProcs, nctx, apiCalls, api, ensureOthers>>

\* Shutdown: pm.shuttingDown = true
Shutdown ==
    /\ shutdownPc = "idle"
    /\ shuttingDown' = TRUE
    /\ shutdownPc' = "stopAll"
    /\ UNCHANGED <<processes, records, cancelled, nctx, osProcs, monitors, ensure,
                   apiCalls, api, otherThanSup>>

\* Shutdown: StopAllFrameworks
StopAllFrameworks ==
    /\ shutdownPc = "stopAll"
    /\ IF processes # 0 /\ records[processes].State # "stopped"
       THEN Stopped(processes)
       ELSE UNCHANGED <<records, cancelled, osProcs>>
    /\ shutdownPc' = "cancel"
    /\ UNCHANGED <<processes, nctx, shuttingDown, monitors, ensure, apiCalls, api,
                   otherThanSup>>

\* Shutdown: pm.cancel()
ShutdownCancel ==
    /\ shutdownPc = "cancel"
    /\ cancelled' = cancelled \cup {0}
    /\ osProcs' = Killed(osProcs, {0}, 0)
    /\ shutdownPc' = "wait"
    /\ UNCHANGED <<processes, records, nctx, shuttingDown, monitors, ensure, apiCalls, api,
                   otherThanSup>>

\* pm.wg.Wait() returns: every monitorProcess that was launched has returned
MonitorsFinished == \A r \in DOMAIN monitors : monitors[r].pc \in {"done", "none"}

\* Shutdown waiting for the monitors with no timer
ShutdownWaitForMonitors ==
    /\ shutdownPc = "wait"
    /\ MonitorsFinished
    /\ shutdownPc' = "done"
    /\ UNCHANGED <<processes, records, cancelled, nctx, shuttingDown, osProcs, monitors,
                   ensure, apiCalls, api, otherThanSup>>

\* Shutdown: the select on done, closed when the monitors have finished, and
\* on the timer of ten seconds; then it returns nil
ShutdownWait ==
    /\ shutdownPc = "wait"
    /\ \E timeout \in BOOLEAN : timeout \/ MonitorsFinished
    /\ shutdownPc' = "done"
    /\ UNCHANGED <<processes, records, cancelled, nctx, shuttingDown, osProcs, monitors,
                   ensure, apiCalls, api, otherThanSup>>

InitSup ==
    /\ disk = NoFile
    /\ now = 0
    /\ call = NoCall
    /\ IdleSave
    /\ IdleRun
    /\ IdleSup
    /\ IdleDelay
    /\ IdleE2E
    /\ IdleCsv
    /\ IdleFan
    /\ IdleParse
    /\ IdleLock

NextSup ==
    \/ \E frameworkName \in {Target, Unconfigured} : StartFramework(frameworkName)
    \/ StopFramework
    \/ ProcessExit
    \/ \E r \in DOMAIN monitors : MonitorTop(r)
    \/ \E r \in DOMAIN monitors : MonitorWait(r)
    \/ \E r \in DOMAIN monitors : MonitorCtx(r)
    \/ \E r \in DOMAIN monitors : MonitorExited(r)
    \/ \E r \in DOMAIN monitors : MonitorSleep(r)
    \/ \E r \in DOMAIN monitors : MonitorRestart(r)
    \/ \E r \in DOMAIN monitors : MonitorSpawn(r)
    \/ \E r \in DOMAIN monitors : MonitorSet(r)
    \/ EnsureFrameworkRunning
    \/ EnsureLookup
    \/ EnsureFresh
    \/ EnsurePoll
    \/ stopProcessOnly
    \/ startProcessForRestart
    \/ EnsureSpawn
    \/ EnsureSet
    \/ EnsureWaitHealthy
    \/ Shutdown
    \/ StopAllFrameworks
    \/ ShutdownCancel
    \/ ShutdownWait

SpecSup == InitSup /\ [][NextSup]_vars

\* C31: a relaunch by the monitor that fails leaves the record failed and the
\* monitor at the top of its loop, from where it waits, backs off and
\* relaunches again; and a monitor returns only when the manager is shutting
\* down, when the context of its record is done (StopFramework, Shutdown), or
\* when RestartCount has reached MaxRestarts.
C31_RelaunchFailureLoops ==
    [][\A r \in DOMAIN monitors :
        /\ (monitors[r].pc = "spawn" /\ monitors'[r].pc \notin {"spawn", "set"}) =>
                /\ records'[r].State = "failed"
                /\ records'[r].LastError
                /\ monitors'[r].pc = "top"
        /\ (monitors[r].pc # "done" /\ monitors'[r].pc = "done") =>
                \/ shuttingDown
                \/ Done(records[r].ctx)
                \/ records[r].RestartCount >= MaxRestarts
        /\ (/\ monitors[r].pc \in {"top", "wait", "ctx", "exited", "sleep"}
            /\ monitors'[r] # monitors[r]
            /\ ~shuttingDown /\ ~Done(records[r].ctx)
            /\ records[r].RestartCount < MaxRestarts
            /\ records[r].Cmd # 0) =>
                monitors'[r].pc \in {"wait", "ctx", "exited", "sleep", "restart"}
      ]_vars

\* the monitor is at its second relaunch after a first one that failed: it
\* has spawned nothing yet
C31_Witness ==
    /\ processes # 0
    /\ monitors[processes].pc = "spawn"
    /\ records[processes].RestartCount = 2
    /\ records[processes].LastError
    /\ Len(osProcs) = 1
    /\ ~shuttingDown
    /\ cancelled = {}

\* the process manager as the runner uses it: the calls of its API and the
\* forced restarts come before Shutdown, none is made or in flight once
\* Shutdown has begun; the monitors and the OS processes go on
NextTeardown ==
    \/ shutdownPc = "idle" /\ StartFramework(Target)
    \/ shutdownPc = "idle" /\ StopFramework
    \/ ProcessExit
    \/ \E r \in DOMAIN monitors : MonitorTop(r)
    \/ \E r \in DOMAIN monitors : MonitorWait(r)
    \/ \E r \in DOMAIN monitors : MonitorCtx(r)
    \/ \E r \in DOMAIN monitors : MonitorExited(r)
    \/ \E r \in DOMAIN monitors : MonitorSleep(r)
    \/ \E r \in DOMAIN monitors : MonitorRestart(r)
    \/ \E r \in DOMAIN monitors : MonitorSpawn(r)
    \/ \E r \in DOMAIN monitors : MonitorSet(r)
    \/ shutdownPc = "idle" /\ EnsureFrameworkRunning
    \/ shutdownPc = "idle" /\ EnsureLookup
    \/ shutdownPc = "idle" /\ EnsureFresh
    \/ shutdownPc = "idle" /\ EnsurePoll
    \/ shutdownPc = "idle" /\ stopProcessOnly
    \/ shutdownPc = "idle" /\ startProcessForRestart
    \/ shutdownPc = "idle" /\ EnsureSpawn
    \/ shutdownPc = "idle" /\ EnsureSet
    \/ shutdownPc = "idle" /\ EnsureWaitHealthy
    \/ ensure.pc = "idle" /\ Shutdown
    \/ StopAllFrameworks
    \/ ShutdownCancel
    \/ ShutdownWait

SpecTeardown == InitSup /\ [][NextTeardown]_vars

\* C33: at the step in which Shutdown returns, the registered record of the
\* target is stopped and no OS process the manager spawned is alive.
C33_ShutdownStopsAll ==
    [][(shutdownPc = "wait" /\ shutdownPc' = "done") =>
        /\ processes' # 0 => records'[processes'].State = "stopped"
        /\ Live' = {}]_vars

\* the OS process the record of the target names has exited, the record says
\* running, and no StopFramework or Shutdown has cancelled anything
ExitedUnseen ==
    /\ processes # 0
    /\ records[processes].State = "running"
    /\ records[processes].Cmd # 0
    /\ ~osProcs[records[processes].Cmd].alive
    /\ ~shuttingDown
    /\ shutdownPc = "idle"
    /\ cancelled = {}

\* C30: while the current OS process of the target has exited and the record
\* still says running, with no stop or shutdown in effect, the monitorProcess
\* of the record has not returned: it is there to detect the exit and to
\* take the state away from running. This covers a process launched by the
\* forced restart of EnsureFrameworkRunning and a target whose restarts are
\* used up.
C30_ExitDetected ==
    ExitedUnseen => monitors[processes].pc \notin {"done", "none"}

\* the process manager as Run uses it: the target is started, its process
\* may exit, its monitor restarts it, Shutdown is called at any moment
NextShutdown ==
    \/ StartFramework(Target)
    \/ StopFramework
    \/ ProcessExit
    \/ \E r \in DOMAIN monitors : MonitorTop(r)
    \/ \E r \in DOMAIN monitors : MonitorWait(r)
    \/ \E r \in DOMAIN monitors : MonitorCtx(r)
    \/ \E r \in DOMAIN monitors : MonitorExited(r)
    \/ \E r \in DOMAIN monitors : MonitorSleep(r)
    \/ \E r \in DOMAIN monitors : MonitorRestart(r)
    \/ \E r \in DOMAIN monitors : MonitorSpawn(r)
    \/ \E r \in DOMAIN monitors : MonitorSet(r)
    \/ Shutdown
    \/ StopAllFrameworks
    \/ ShutdownCancel
    \/ ShutdownWait

\* Shutdown runs on the goroutine of its caller and every wait in it has a
\* timer (ten seconds in StopFramework, ten seconds for the monitors), so a
\* step of Shutdown that is enabled is taken; the monitors, the OS processes
\* and the other callers are given no fairness
SpecShutdown ==
    /\ InitSup
    /\ [][NextShutdown]_vars
    /\ WF_vars(StopAllFrameworks)
    /\ WF_vars(ShutdownCancel)
    /\ WF_vars(ShutdownWait)

\* C22: a Shutdown that was called returns, whatever the monitors do: also
\* when a monitorProcess never returns.
C22_ShutdownReturns == (shutdownPc # "idle") ~> (shutdownPc = "done")

\* Shutdown has returned while a monitorProcess has not
C22_Witness == shutdownPc = "done" /\ ~MonitorsFinished

\* C5: at every moment the target has at most one live OS process spawned by
\* the process manager.
C5_OneLiveProcess == Cardinality(Live) <= 1

\* the restart count of the target: that of its registered record
RestartCountOf == IF processes = 0 THEN 0 ELSE records[processes].RestartCount

\* C6: the restart count of the target goes up by at most one in a step,
\* never decreases and never exceeds MaxRestarts.
C6_MonotonicRestartCount ==
    [][/\ RestartCountOf' >= RestartCountOf
       /\ RestartCountOf' <= RestartCountOf + 1
       /\ RestartCountOf' <= MaxRestarts]_vars

\* C7: the relaunch of the monitor of the target (from State = Restarting to
\* the end of its startProcess) and the forced relaunch of
\* EnsureFrameworkRunning (from stopProcessOnly to the end of
\* startProcessForRestart) never overlap.
C7_NoConcurrentRestart ==
    ~(/\ processes # 0
      /\ monitors[processes].pc \in {"spawn", "set"}
      /\ ensure.pc \in {"start", "spawn", "set"})

\* C8: once shuttingDown is set, no step of a monitor increments a
\* RestartCount or spawns an OS process.
C8_NoRestartAfterShutdown ==
    [][shuttingDown =>
        /\ \A r \in DOMAIN records : records'[r].RestartCount <= records[r].RestartCount
        /\ Len(osProcs') > Len(osProcs) => osProcs'[Len(osProcs')].by # "monitor"]_vars

\* C18: EnsureFrameworkRunning has returned nil only after a health probe of
\* the target succeeded in the call: on its first check, with nothing polled
\* or spawned; or, a restart being in progress, within its thirty polls and
\* with nothing spawned by the call; or else after the forced stop, a relaunch
\* by the call and a health wait that succeeded.
C18_EnsureSuccess ==
    (ensure.pc = "idle" /\ ensure.ret = "nil") =>
        /\ ensure.probed
        /\ ensure.path = "healthy" => (~ensure.spawned /\ ensure.polls = 0)
        /\ ensure.path = "poll" => (~ensure.spawned /\ ensure.polls \in 1 .. ensurePolls)
        /\ ensure.path \notin {"healthy", "poll"} =>
                (ensure.path = "forced" /\ ensure.spawned)

\* the monitorProcess goroutines that were launched
Launched(m) == {r \in DOMAIN m : m[r].pc # "none"}

\* C20: a StartFramework on a target whose State is running or starting
\* returns an error and leaves the registered record, the records, the OS
\* processes, the contexts and the monitors as they were; a StartFramework
\* with a name that is not configured, or whose binary is missing (no process
\* was spawned), returns an error; and a StartFramework that returns an error
\* launches no monitor.
C20_StartFailsFast ==
    [][(api' # api /\ api'.op = "StartFramework") =>
        /\ (/\ api'.frameworkName = Target
            /\ processes # 0
            /\ records[processes].State \in {"running", "starting"}) =>
                /\ api'.err
                /\ UNCHANGED <<processes, records, osProcs, nctx, cancelled, monitors>>
        /\ api'.frameworkName = Unconfigured =>
                /\ api'.err
                /\ UNCHANGED <<processes, records, osProcs, nctx, cancelled, monitors>>
        /\ Len(osProcs') = Len(osProcs) => api'.err
        /\ api'.err => Launched(monitors') = Launched(monitors)
        /\ ~api'.err => Cardinality(Launched(monitors')) = Cardinality(Launched(monitors)) + 1
      ]_vars

\* StartFramework has just refused the target while the forced restart of
\* EnsureFrameworkRunning had set it to starting
C20_Witness ==
    /\ api.op = "StartFramework"
    /\ api.n = apiCalls
    /\ api.err
    /\ api.why = "already"
    /\ processes # 0
    /\ records[processes].State = "starting"
    /\ Len(records) = 1
    /\ Cardinality(Launched(monitors)) = 1

\* C19: a StopFramework that returns nil leaves the target stopped; a record
\* that is stopped stays stopped in every step that is not a step of
\* EnsureFrameworkRunning, those of its monitor included (a new start makes a
\* new record); and a StopFramework on a stopped target returns nil and
\* changes nothing.
C19_StoppedTerminal ==
    [][/\ (api' # api /\ api'.op = "StopFramework" /\ ~api'.err) =>
                records'[processes].State = "stopped"
       /\ \A r \in DOMAIN records :
            (records[r].State = "stopped" /\ ensure' = ensure) =>
                records'[r].State = "stopped"
       /\ (/\ api' # api
           /\ api'.op = "StopFramework"
           /\ processes # 0
           /\ records[processes].State = "stopped") =>
                /\ ~api'.err
                /\ UNCHANGED <<processes, records, osProcs, nctx, cancelled, monitors>>
      ]_vars

----------------------------------------------------------------------------
(* SpecE2E: one run of the program with the process manager behind it: two *)
(* targets, one scenario, MaxBatches batches, no progress file. The target *)
(* Target is supervised as in SpecSup; the other target never fails. The   *)
(* process of Target crashes at most once, while the load tool runs        *)
(* against it in batch 1; apart from that crash every spawn succeeds, the  *)
(* health endpoint answers whenever a process of the target is alive, and  *)
(* every save succeeds.                                                     *)

\* the runner's variables an iteration of runTestWithRestart leaves alone
iterOthers == <<trackerVars, saveVars, delayVars, csvVars, fanVars, parseVars, lockVars, runPc,
                runCfg, sessions, resumeInfo, completedTests, visited, skipped, cur, results, cellRuns>>

\* the process manager's variables a call of EnsureFrameworkRunning leaves alone
callOthers == <<processes, cancelled, shuttingDown, monitors, shutdownPc, apiCalls, api>>

\* Run: StartAllFrameworks: StartFramework of the target
E2EStartAll ==
    /\ runPc = "startAll"
    /\ ~AlreadyStarted
    /\ Len(records) < MaxRecords
    /\ StartFresh
    /\ runPc' = IF Len(osProcs') > Len(osProcs) THEN "health" ELSE "failed"
    /\ UNCHANGED <<trackerVars, saveVars, restVars, runCfg, sessions, resumeInfo,
                   completedTests, visited, skipped, cur, cell, results, cellRuns,
                   loadTool, cancelled, shuttingDown, ensure, shutdownPc, apiCalls, api>>

\* the end of an iteration of runTestWithRestart, with what its calls returned
IterationEnd(ensureOk, test, healthy, restartOk) ==
    /\ cell' = runTestWithRestart(cell, runCfg.MaxRetries, cur[1], ensureOk, test,
                                  healthy, restartOk)
    /\ loadTool' = IF cell'.loadCalls > cell.loadCalls THEN loadTool \cup {cur}
                   ELSE loadTool
    /\ iter' = NoIter

\* runTestWithRestart: EnsureFrameworkRunning is called at the top of the loop
E2EEnsureCall ==
    /\ runPc = "cell"
    /\ cell.status = "loop"
    /\ iter.pc = "top"
    /\ IF cur[1] = Target
       THEN /\ EnsureBegin
            /\ iter' = [iter EXCEPT !.pc = "ensuring"]
       ELSE /\ iter' = [iter EXCEPT !.pc = "test"]
            /\ UNCHANGED <<ensure, records, osProcs, nctx>>
    /\ UNCHANGED <<cell, loadTool, crashes, iterOthers, callOthers>>

\* runTestWithRestart: EnsureFrameworkRunning has returned
E2EEnsureReturn ==
    /\ runPc = "cell"
    /\ iter.pc = "ensuring"
    /\ ensure.pc = "idle"
    /\ IF ensure.ret = "nil"
       THEN /\ iter' = [iter EXCEPT !.pc = "test"]
            /\ UNCHANGED <<cell, loadTool>>
       ELSE IterationEnd(FALSE, "ok", TRUE, TRUE)
    /\ UNCHANGED <<crashes, iterOthers, supVars>>

\* runTest: the load tool starts
E2ETestStart ==
    /\ runPc = "cell"
    /\ iter.pc = "test"
    /\ iter' = [iter EXCEPT !.pc = "testing", !.hit = FALSE]
    /\ UNCHANGED <<cell, loadTool, crashes, iterOthers, supVars>>

\* the process of the target crashes under the load of batch 1
E2ECrash ==
    /\ runPc = "cell"
    /\ iter.pc = "testing"
    /\ cur[1] = Target
    /\ cur[3] = 1
    /\ crashes = 0
    /\ \E p \in Live : osProcs' = [osProcs EXCEPT ![p].alive = FALSE]
    /\ crashes' = 1
    /\ iter' = [iter EXCEPT !.hit = TRUE]
    /\ UNCHANGED <<cell, loadTool, iterOthers, ensure, records, nctx, callOthers>>

\* the result of runTest: the load tool fails when the target went away
TestOutcome ==
    IF cur[1] = Target /\ (iter.hit \/ Live = {}) THEN ErrRefused ELSE "ok"

\* runTestWithRestart goes on to IsFrameworkHealthy after this failure
ChecksHealth(c, maxRetries, test) ==
    test # "ok" /\ Retryable[test] /\ c.attempt < maxRetries

\* runTest: the load tool has ended
E2ETestEnd ==
    /\ runPc = "cell"
    /\ iter.pc = "testing"
    /\ IF ChecksHealth(cell, runCfg.MaxRetries, TestOutcome)
       THEN /\ iter' = [iter EXCEPT !.pc = "health", !.test = TestOutcome]
            /\ UNCHANGED <<cell, loadTool>>
       ELSE IterationEnd(TRUE, TestOutcome, TRUE, TRUE)
    /\ UNCHANGED <<crashes, iterOthers, supVars>>

\* runTestWithRestart: IsFrameworkHealthy after the failure
E2EHealthCheck ==
    /\ runPc = "cell"
    /\ iter.pc = "health"
    /\ IF cur[1] # Target \/ IsFrameworkHealthy(TRUE)
       THEN IterationEnd(TRUE, iter.test, TRUE, TRUE)
       ELSE IF cell.frameworkRestarts < maxFrameworkRestarts
       THEN /\ iter' = [iter EXCEPT !.pc = "restart"]
            /\ UNCHANGED <<cell, loadTool>>
       ELSE IterationEnd(TRUE, iter.test, FALSE, TRUE)
    /\ UNCHANGED <<crashes, iterOthers, supVars>>

\* runTestWithRestart: EnsureFrameworkRunning is called to restart the target
E2ERestartCall ==
    /\ runPc = "cell"
    /\ iter.pc = "restart"
    /\ EnsureBegin
    /\ iter' = [iter EXCEPT !.pc = "restarting"]
    /\ UNCHANGED <<cell, loadTool, crashes, iterOthers, callOthers>>

\* runTestWithRestart: the restarting EnsureFrameworkRunning has returned
E2ERestartReturn ==
    /\ runPc = "cell"
    /\ iter.pc = "restarting"
    /\ ensure.pc = "idle"
    /\ IterationEnd(TRUE, iter.test, FALSE, ensure.ret = "nil")
    /\ UNCHANGED <<crashes, iterOthers, supVars>>

\* a health probe of the target answers exactly when a process of it is alive
ProbeAnswers ==
    /\ (ensure.pc \in {"idle", "poll"} /\ IsFrameworkHealthy(TRUE)) => ensure'.ret = "nil"
    /\ (ensure.pc = "health" /\ Live # {}) => ensure'.ret = "nil"

\* a spawn succeeds unless the context of the command is done
SpawnWorks(ctx) == ~Done(ctx) => Len(osProcs') > Len(osProcs)

InitE2E ==
    /\ disk = NoFile
    /\ now = 0
    /\ call = NoCall
    /\ IdleSave
    /\ IdleRun
    /\ IdleSup
    /\ IdleDelay
    /\ IdleE2E
    /\ IdleCsv
    /\ IdleFan
    /\ IdleParse
    /\ IdleLock

NextE2E ==
    \/ RunBegin /\ runCfg' = CfgPlain(MaxBatches) /\ sessions = 0
    \/ RunInitializeProgress
    \/ E2EStartAll /\ SpawnWorks(nctx + 1)
    \/ RunWaitForHealthy /\ Live # {} /\ runPc' = "matrix"
    \/ RunNextCell
    \/ E2EEnsureCall /\ ProbeAnswers
    \/ E2EEnsureReturn
    \/ E2ETestStart
    \/ E2ECrash
    \/ E2ETestEnd
    \/ E2EHealthCheck
    \/ E2ERestartCall /\ ProbeAnswers
    \/ E2ERestartReturn
    \/ RunCellReturn
    \/ RunLoopEnd
    \/ RunSaveResults /\ runPc' = "shutdown"
    \/ runPc = "shutdown" /\ Shutdown
    \/ StopAllFrameworks
    \/ ShutdownCancel
    \/ ShutdownWait
    \/ shutdownPc = "done" /\ RunShutdown
    \/ RunFinish
    \/ \E r \in DOMAIN monitors : MonitorTop(r)
    \/ \E r \in DOMAIN monitors : MonitorWait(r)
    \/ \E r \in DOMAIN monitors : MonitorCtx(r)
    \/ \E r \in DOMAIN monitors : MonitorExited(r)
    \/ \E r \in DOMAIN monitors : MonitorSleep(r)
    \/ \E r \in DOMAIN monitors : MonitorRestart(r)
    \/ \E r \in DOMAIN monitors : MonitorSpawn(r) /\ SpawnWorks(records[r].ctx)
    \/ \E r \in DOMAIN monitors : MonitorSet(r)
    \/ EnsureLookup
    \/ EnsurePoll /\ ProbeAnswers
    \/ stopProcessOnly
    \/ startProcessForRestart
    \/ EnsureSpawn /\ SpawnWorks(records[processes].ctx)
    \/ EnsureSet
    \/ EnsureWaitHealthy /\ ProbeAnswers

SpecE2E == InitE2E /\ [][NextE2E]_vars

\* the relaunches of the target: the OS processes spawned after the first
Relaunches == Len(osProcs) - 1

\* C14: end to end. When Run has returned from a run of two targets, one
\* scenario and two batches in which the target crashed once during batch 1,
\* so that the attempt failed with a retryable error, the target was
\* relaunched exactly once, batch 1 of the target was run again, succeeded
\* and is recorded, the keys of all cells are in the completed list, and the
\* status of the snapshot is completed.
C14_EndToEnd ==
    (runPc = "done" /\ crashes = 1) =>
        /\ isRetryableError(ErrRefused)
        /\ Relaunches = 1
        /\ disk.kind = "state"
        /\ \E i \in 1 .. Len(disk.Results) :
                disk.Results[i] = TestResult(runCfg, <<Target, "s1", 1>>)
        /\ \A c \in CellsOf(runCfg) :
                SeqContains(disk.CompletedTestsList, CellKey(runCfg, c))
        /\ Len(disk.CompletedTestsList) = TotalTestsOf(runCfg)
        /\ disk.Status = "completed"

----------------------------------------------------------------------------
(* SpecStore: Run over a state file whose reads and writes can fail. The   *)
(* targets start and answer, the result files can be written, and a cell   *)
(* succeeds or fails as in SpecRun: what is left to go wrong is the state  *)
(* file, which may be missing or unparsable at the start and which every   *)
(* SaveState may write, leave alone or cut short.                          *)

\* the state file at the start of the program
StoreFiles == {NoFile, Corrupt}

\* Run: r.tracker.InitializeProgress(r.config), with any result of its save
StoreInitializeProgress ==
    /\ runPc = "init"
    /\ \E io \in SaveOutcomes :
        disk' = InitializeProgress(disk, runCfg, io, now + 1)
    /\ now' = now + 1
    /\ runPc' = "startAll"
    /\ UNCHANGED <<call, runCfg, sessions, resumeInfo, completedTests, visited, skipped,
                   cur, cell, results, cellRuns, loadTool, otherThanRun>>

\* runBenchmarks: runTestWithRestart has returned; AddResult or MarkTestFailed
\* with any result of its save
StoreCellReturn ==
    /\ runPc = "cell"
    /\ cell.status # "loop"
    /\ \E io \in SaveOutcomes :
        IF cell.status = "fail"
        THEN /\ disk' = MarkTestFailed(disk, cur[1], cur[2], cur[3], cell.error, io,
                                       now + 1)
             /\ runPc' = "failed"
             /\ UNCHANGED <<results, completedTests>>
        ELSE LET result == TestResult(runCfg, cur)
             IN /\ results' = Append(results, result)
                /\ disk' = AddResult(disk, result, io, now + 1)
                /\ completedTests' = completedTests + 1
                /\ runPc' = "matrix"
    /\ now' = now + 1
    /\ cell' = NewCell
    /\ UNCHANGED <<call, runCfg, sessions, resumeInfo, visited, skipped, cur,
                   cellRuns, loadTool, otherThanRun>>

\* Run: r.tracker.Finish(), with any result of its save
StoreFinish ==
    /\ runPc = "finish"
    /\ \E io \in SaveOutcomes :
        disk' = Finish(disk, io, now + 1)
    /\ now' = now + 1
    /\ runPc' = "done"
    /\ UNCHANGED <<call, runCfg, sessions, resumeInfo, completedTests, visited, skipped,
                   cur, cell, results, cellRuns, loadTool, otherThanRun>>

InitStore ==
    /\ disk \in StoreFiles
    /\ now = 0
    /\ call = NoCall
    /\ IdleSave
    /\ IdleRun
    /\ IdleSup
    /\ IdleDelay
    /\ IdleE2E
    /\ IdleCsv
    /\ IdleFan
    /\ IdleParse
    /\ IdleLock

NextStore ==
    \/ RunBegin /\ runCfg' = CfgPlain(MaxBatches)
    \/ StoreInitializeProgress
    \/ RunStartAll /\ runPc' = "health"
    \/ RunWaitForHealthy /\ runPc' = "matrix"
    \/ RunNextCell
    \/ RunAttempt
    \/ StoreCellReturn
    \/ RunLoopEnd
    \/ RunSaveResults /\ (LoadErr(disk) \/ LoadNil(disk) \/ runPc' = "shutdown")
    \/ RunShutdown
    \/ StoreFinish
    \/ RunExit

SpecStore == InitStore /\ [][NextStore]_vars

\* C23: no failure to read, parse or write the state file is fatal. With the
\* targets starting and answering and the result files writable, Run fails
\* only because a cell failed, it never panics, and after the last cell
\* saveResults, Shutdown and Finish follow whatever the state file holds.
C23_StorageNotFatal ==
    [][/\ runPc' = "failed" => runPc = "cell" /\ cell.status = "fail"
       /\ runPc' # "crashed"
       /\ runPc = "save" => runPc' \in {"shutdown", "idle"}]_vars

----------------------------------------------------------------------------
(* SpecParse: the parsers of the runner, applied to texts of a bounded     *)
(* set. A float64 is modelled as an exact decimal fraction num / den, and  *)
(* a time.Duration as an integer number of nanoseconds; the rounding of    *)
(* the float64 product is not modelled. ParseFloat covers the decimal      *)
(* notation (sign, digits, one point), which is what the load tools print. *)

\* float64(time.Microsecond), float64(time.Millisecond), in nanoseconds
Microsecond == 1000

Millisecond == 1000 * Microsecond

\* float64(time.Second), in nanoseconds
SecondNs == 1000 * Millisecond

DecimalDigits == "0123456789"

IsDigit(ch) == \E i \in 1..10 : SubSeq(DecimalDigits, i, i) = ch

DigitValue(ch) == (CHOOSE i \in 1..10 : SubSeq(DecimalDigits, i, i) = ch) - 1

AllDigits(str) == \A i \in 1..Len(str) : IsDigit(SubSeq(str, i, i))

RECURSIVE DigitsValue(_)
\* the number a string of digits writes
DigitsValue(str) ==
    IF Len(str) = 0 THEN 0
    ELSE 10 * DigitsValue(SubSeq(str, 1, Len(str) - 1))
            + DigitValue(SubSeq(str, Len(str), Len(str)))

RECURSIVE Pow10(_)
Pow10(n) == IF n = 0 THEN 1 ELSE 10 * Pow10(n - 1)

\* unicode.IsSpace, for the characters of the texts
IsSpace(ch) == ch \in {" ", "\t", "\n", "\r"}

RECURSIVE TrimLeft(_)
TrimLeft(str) ==
    IF Len(str) > 0 /\ IsSpace(SubSeq(str, 1, 1))
    THEN TrimLeft(SubSeq(str, 2, Len(str))) ELSE str

RECURSIVE TrimRight(_)
TrimRight(str) ==
    IF Len(str) > 0 /\ IsSpace(SubSeq(str, Len(str), Len(str)))
    THEN TrimRight(SubSeq(str, 1, Len(str) - 1)) ELSE str

\* strings.TrimSpace
TrimSpace(str) == TrimRight(TrimLeft(str))

\* strings.HasSuffix
HasSuffix(str, suffix) ==
    /\ Len(str) >= Len(suffix)
    /\ SubSeq(str, Len(str) - Len(suffix) + 1, Len(str)) = suffix

\* strings.TrimSuffix
TrimSuffix(str, suffix) ==
    IF HasSuffix(str, suffix) THEN SubSeq(str, 1, Len(str) - Len(suffix)) ELSE str

\* strconv.ParseFloat(str, 64) on decimal notation: the value num / den, or
\* an error
ParseFloat(str) ==
    LET signed == Len(str) > 0 /\ SubSeq(str, 1, 1) \in {"-", "+"}
        neg == Len(str) > 0 /\ SubSeq(str, 1, 1) = "-"
        body == IF signed THEN SubSeq(str, 2, Len(str)) ELSE str
        points == {i \in 1..Len(body) : SubSeq(body, i, i) = "."}
        point == IF points = {} THEN Len(body) + 1 ELSE CHOOSE i \in points : TRUE
        whole == SubSeq(body, 1, point - 1)
        fraction == SubSeq(body, point + 1, Len(body))
    IN IF \/ Cardinality(points) > 1
          \/ ~AllDigits(whole)
          \/ ~AllDigits(fraction)
          \/ Len(whole) + Len(fraction) = 0
       THEN [err |-> TRUE, num |-> 0, den |-> 1]
       ELSE [err |-> FALSE,
             num |-> (IF neg THEN -1 ELSE 1) * DigitsValue(whole \o fraction),
             den |-> Pow10(Len(fraction))]

\* time.Duration(val * float64(unit)): the product, its fraction dropped
DurationOf(val, unit) ==
    val.num * (unit \div val.den) + Truncate(val.num * (unit % val.den), val.den)

\* what parseLatency returns for a value and its unit
LatencyOf(val, unit) ==
    IF val.err THEN [err |-> TRUE, d |-> 0]
    ELSE [err |-> FALSE, d |-> DurationOf(val, unit)]

\* parseLatency with the suffix "s" tested before "ms" and "us"
parseLatencySecondsFirst(str) ==
    LET t == TrimSpace(str)
    IN IF HasSuffix(t, "s") THEN LatencyOf(ParseFloat(TrimSuffix(t, "s")), SecondNs)
       ELSE IF HasSuffix(t, "ms")
       THEN LatencyOf(ParseFloat(TrimSuffix(t, "ms")), Millisecond)
       ELSE IF HasSuffix(t, "us")
       THEN LatencyOf(ParseFloat(TrimSuffix(t, "us")), Microsecond)
       ELSE LatencyOf(ParseFloat(t), Millisecond)

\* parseLatency
parseLatency(str) ==
    LET t == TrimSpace(str)
    IN IF HasSuffix(t, "ms") THEN LatencyOf(ParseFloat(TrimSuffix(t, "ms")), Millisecond)
       ELSE IF HasSuffix(t, "us")
       THEN LatencyOf(ParseFloat(TrimSuffix(t, "us")), Microsecond)
       ELSE IF HasSuffix(t, "s")
       THEN LatencyOf(ParseFloat(TrimSuffix(t, "s")), SecondNs)
       ELSE LatencyOf(ParseFloat(t), Millisecond)

\* the index of the first character of str for which one of chars stands, or
\* Len(str) + 1
FirstOf(str, chars) ==
    LET found == {i \in 1..Len(str) : SubSeq(str, i, i) \in chars}
    IN IF found = {} THEN Len(str) + 1
       ELSE CHOOSE i \in found : \A j \in found : i <= j

RECURSIVE Split(_)
\* strings.Split(str, "\n")
Split(str) ==
    LET at == FirstOf(str, {"\n"})
    IN IF at > Len(str) THEN <<str>>
       ELSE <<SubSeq(str, 1, at - 1)>> \o Split(SubSeq(str, at + 1, Len(str)))

RECURSIVE Fields(_)
\* strings.Fields
Fields(str) ==
    LET t == TrimLeft(str)
        at == FirstOf(t, {" ", "\t", "\n", "\r"})
    IN IF Len(t) = 0 THEN <<>>
       ELSE <<SubSeq(t, 1, at - 1)>> \o Fields(SubSeq(t, at, Len(t)))

\* the measurements of a types.TestResult before the output is read
ZeroResult == [RequestsPerSec |-> [num |-> 0, den |-> 1], LatencyMean |-> 0]

\* the body of the loop of parseWrkOutput and parseAbOutput for one line: the
\* labels of the tool and the index (from 1) of the field that holds the value
ParseLine(result, rawLine, rpsLabel, latLabel1, latLabel2, field) ==
    LET line == TrimSpace(rawLine)
        lineParts == Fields(line)
        rps == IF Contains(line, rpsLabel) /\ Len(lineParts) >= field
               THEN ParseFloat(lineParts[field])
               ELSE [err |-> TRUE, num |-> 0, den |-> 1]
        latency == IF Contains(line, latLabel1) /\ Contains(line, latLabel2)
                        /\ Len(lineParts) >= field
                   THEN parseLatency(lineParts[field])
                   ELSE [err |-> TRUE, d |-> 0]
    IN [RequestsPerSec |-> IF rps.err THEN result.RequestsPerSec
                           ELSE [num |-> rps.num, den |-> rps.den],
        LatencyMean |-> IF latency.err THEN result.LatencyMean ELSE latency.d]

RECURSIVE ParseLines(_, _, _, _, _, _)
ParseLines(result, lines, rpsLabel, latLabel1, latLabel2, field) ==
    IF Len(lines) = 0 THEN result
    ELSE ParseLines(ParseLine(result, Head(lines), rpsLabel, latLabel1, latLabel2, field),
                    Tail(lines), rpsLabel, latLabel1, latLabel2, field)

\* parseWrkOutput
parseWrkOutput(output) ==
    [err |-> FALSE,
     result |-> ParseLines(ZeroResult, Split(output), "Requests/sec:", "Latency", "avg", 2)]

\* parseAbOutput
parseAbOutput(output) ==
    [err |-> FALSE,
     result |-> ParseLines(ZeroResult, Split(output), "Requests per second:",
                           "Time per request:", "mean", 4)]

\* a text holds a label of the tool's dialect
Recognized(tool, output) ==
    IF tool = "wrk" THEN Contains(output, "Requests/sec:") \/ Contains(output, "Latency")
    ELSE Contains(output, "Requests per second:") \/ Contains(output, "Time per request:")

\* parseOutput that rejects a text with no label of the tool
parseOutputStrict(tool, output) ==
    IF ~Recognized(tool, output) THEN [err |-> TRUE, result |-> ZeroResult]
    ELSE IF tool = "wrk" THEN parseWrkOutput(output) ELSE parseAbOutput(output)

\* parseOutput
parseOutput(tool, output) ==
    IF tool = "wrk" THEN parseWrkOutput(output) ELSE parseAbOutput(output)

\* runTest, from the exit of the load tool on: exit is the error of
\* cmd.CombinedOutput, "" for nil
runTest(tool, exit, output) ==
    IF exit # ""
    THEN [err |-> "command failed: " \o exit \o ", output: " \o output,
          result |-> ZeroResult]
    ELSE LET parsed == parseOutput(tool, output)
         IN IF parsed.err THEN [err |-> "failed to parse output", result |-> ZeroResult]
            ELSE [err |-> "", result |-> parsed.result]

\* config.Benchmark.Tool
Tools == {"wrk", "ab"}

\* what cmd.CombinedOutput returns as error
Exits == {"", "exit status 1"}

\* outputs of the load tools, and texts that are not
ToolOutputs ==
    {"Running 30s test\n  Thread Stats   Avg      Stdev\n    Latency   635.91us    0.89ms\nRequests/sec:  12345.67\nTransfer/sec: 1.50MB",
     "Latency 1.23ms avg\nRequests/sec: 100",
     "Requests/sec: many",
     "Requests/sec:",
     "Requests per second:    1234.56 [#/sec] (mean)\nTime per request:       8.100 [ms] (mean)",
     "Time per request:       0.810 [ms] (mean, across all concurrent requests)",
     "Requests per second: n/a [#/sec] (mean)",
     "Segmentation fault",
     "\n\n",
     "usage: wrk <options> <url>"}

\* numbers as the load tools print them, with the value each one writes
Numbers ==
    {[text |-> "12.34", num |-> 1234, den |-> 100],
     [text |-> "500", num |-> 500, den |-> 1],
     [text |-> "1.5", num |-> 15, den |-> 10],
     [text |-> "7", num |-> 7, den |-> 1],
     [text |-> "0.25", num |-> 25, den |-> 100],
     [text |-> "2.001", num |-> 2001, den |-> 1000],
     [text |-> "0", num |-> 0, den |-> 1],
     [text |-> ".5", num |-> 5, den |-> 10]}

\* the units parseLatency knows and what they stand for
Units == [ms |-> Millisecond, us |-> Microsecond, s |-> SecondNs]

\* texts that are no number
NotNumbers == {"", "abc", "1.2.3", ".", "-", "12,5", "1 5"}

\* suffixes parseLatency does not know
OtherSuffixes == {"m", "ns", "sec", "%", " ms"}

\* white space around the text
Pads == {"", " ", "\t"}

\* the durations an integer of the model can hold: less than two seconds
Fits(n, u) == u # "s" \/ n.num < 2 * n.den

\* the number of nanoseconds that n of the unit u are
Exactly(n, unit) == n.num * (unit \div n.den)

\* the texts handed to parseLatency
LatencyTexts ==
    {n.text \o u : n \in Numbers, u \in {"ms", "us", ""} \cup OtherSuffixes}
        \cup {n.text \o "s" : n \in {m \in Numbers : Fits(m, "s")}}
        \cup {t \o u : t \in NotNumbers, u \in DOMAIN Units \cup {""}}

otherThanParse == <<trackerVars, saveVars, runVars, supVars, delayVars, e2eVars, csvVars,
                   fanVars, lockVars>>

\* a call of parseLatency
CallParseLatency ==
    /\ parseOut.fn = "none"
    /\ parseOut' = [fn |-> "parseLatency"] @@ parseLatency(parseIn)
    /\ UNCHANGED <<parseIn, otherThanParse>>

InitParse ==
    /\ disk = NoFile
    /\ now = 0
    /\ call = NoCall
    /\ IdleSave
    /\ IdleRun
    /\ IdleSup
    /\ IdleDelay
    /\ IdleE2E
    /\ IdleCsv
    /\ IdleFan
    /\ IdleLock
    /\ \/ \E t \in LatencyTexts, left \in Pads, right \in Pads :
                parseIn = left \o t \o right
       \/ parseIn \in ToolOutputs
    /\ parseOut = NoParse

\* a call of runTest for which the load tool has ended
CallRunTest ==
    /\ parseOut.fn = "none"
    /\ \E tool \in Tools, exit \in Exits :
        parseOut' = [fn |-> "runTest", tool |-> tool, exit |-> exit]
                        @@ runTest(tool, exit, parseIn)
    /\ UNCHANGED <<parseIn, otherThanParse>>

NextParse ==
    \/ CallParseLatency
    \/ CallRunTest

SpecParse == InitParse /\ [][NextParse]_vars

\* the text is the number n with the suffix u, inside white space
IsText(str, n, u) ==
    \E left \in Pads, right \in Pads : str = left \o n.text \o u \o right

C28_LenientParsing ==
    (parseOut.fn = "runTest" /\ parseOut.exit = "") =>
        /\ ~parseOutput(parseOut.tool, parseIn).err
        /\ parseOut.err = ""
        /\ ~Recognized(parseOut.tool, parseIn) =>
                /\ parseOut.result.RequestsPerSec.num = 0
                /\ parseOut.result.LatencyMean = 0
        /\ runTestWithRestart(NewCell, 1, "f1", TRUE,
                              IF parseOut.err = "" THEN "ok" ELSE ErrBadRequest,
                              TRUE, TRUE).status = "ok"

\* the load tool exited with success and printed nothing the parser knows:
\* the result holds zeros
C28_Witness ==
    /\ parseOut.fn = "runTest"
    /\ parseOut.exit = ""
    /\ parseIn = "Segmentation fault"
    /\ parseOut.err = ""
    /\ parseOut.result = ZeroResult

----------------------------------------------------------------------------
(* SpecFan: StartAllFrameworks. One goroutine per configured framework     *)
(* calls StartFramework, which runs under ProcessManager.mu and so is one  *)
(* step, and appends its error to the slice errors, which all goroutines   *)
(* share and no lock guards: the append is a read of the slice and a write *)
(* of the longer slice, and other goroutines can come in between.          *)

\* the most frameworks a configuration of SpecFan has
MaxTargets == 3

FanNames == {"f1", "f2", "f3"}

\* the configurations: any frameworks of FanNames, up to MaxTargets of them
FanConfigs == {c \in SUBSET FanNames : Cardinality(c) <= MaxTargets}

otherThanFan == <<trackerVars, saveVars, runVars, supVars, delayVars, e2eVars, csvVars,
                  parseVars, lockVars>>

\* the error a goroutine appends
StartErr(name) == "failed to start " \o name

\* StartAllFrameworks is called: the goroutines are launched
StartAllFrameworks ==
    /\ fan.pc = "idle"
    /\ \E config \in FanConfigs :
        fan' = [pc |-> "wait", go |-> [name \in config |-> "start"],
                failed |-> {}, started |-> {}, seen |-> [name \in config |-> <<>>],
                errors |-> <<>>, ret |-> "none", n |-> 0]
    /\ UNCHANGED otherThanFan

\* a goroutine: pm.StartFramework(name) returns nil or an error
GoStartFramework(name) ==
    /\ fan.pc = "wait"
    /\ name \in DOMAIN fan.go
    /\ fan.go[name] = "start"
    /\ \E ok \in BOOLEAN :
        fan' = [fan EXCEPT !.go[name] = IF ok THEN "done" ELSE "append",
                           !.started = IF ok THEN @ \cup {name} ELSE @,
                           !.failed = IF ok THEN @ ELSE @ \cup {name}]
    /\ UNCHANGED otherThanFan

\* a goroutine: append reads the slice errors
GoAppendRead(name) ==
    /\ fan.pc = "wait"
    /\ name \in DOMAIN fan.go
    /\ fan.go[name] = "append"
    /\ fan' = [fan EXCEPT !.go[name] = "store", !.seen[name] = fan.errors]
    /\ UNCHANGED otherThanFan

\* a goroutine: the slice with the error appended is stored in errors
GoAppendStore(name) ==
    /\ fan.pc = "wait"
    /\ name \in DOMAIN fan.go
    /\ fan.go[name] = "store"
    /\ fan' = [fan EXCEPT !.go[name] = "done",
                          !.errors = Append(fan.seen[name], StartErr(name))]
    /\ UNCHANGED otherThanFan

\* wg.Wait() is over: StartAllFrameworks returns nil, or an error that counts
\* the errors of the slice
StartAllReturn ==
    /\ fan.pc = "wait"
    /\ \A name \in DOMAIN fan.go : fan.go[name] = "done"
    /\ fan' = [fan EXCEPT !.pc = "done",
                          !.ret = IF Len(fan.errors) > 0 THEN "err" ELSE "nil",
                          !.n = Len(fan.errors)]
    /\ UNCHANGED otherThanFan

InitFan ==
    /\ disk = NoFile
    /\ now = 0
    /\ call = NoCall
    /\ IdleSave
    /\ IdleRun
    /\ IdleSup
    /\ IdleDelay
    /\ IdleE2E
    /\ IdleCsv
    /\ IdleFan
    /\ IdleParse
    /\ IdleLock

NextFan ==
    \/ StartAllFrameworks
    \/ \E name \in FanNames : GoStartFramework(name)
    \/ \E name \in FanNames : GoAppendRead(name)
    \/ \E name \in FanNames : GoAppendStore(name)
    \/ StartAllReturn

SpecFan == InitFan /\ [][NextFan]_vars

\* C21: StartAllFrameworks calls StartFramework for every configured
\* framework, whatever the other calls return; when k of them failed it
\* returns an error that counts k, "failed to start k frameworks", and it
\* returns nil exactly when k = 0.
C21_AllErrorsReported ==
    (fan.pc = "done") =>
        /\ fan.started \cup fan.failed = DOMAIN fan.go
        /\ fan.ret = "nil" <=> fan.failed = {}
        /\ fan.failed # {} => fan.n = Cardinality(fan.failed)

----------------------------------------------------------------------------
(* SpecReturn: one Run from its entry to its return, with the process       *)
(* manager behind StartAllFrameworks and Shutdown: the start of the target  *)
(* may fail, the health wait may time out, a cell may fail, the saving may  *)
(* fail. The process of the target may exit at any time and its monitor     *)
(* restarts it, as in SpecSup.                                              *)

NextReturn ==
    \/ RunBegin /\ runCfg' = CfgPlain(MaxBatches) /\ sessions = 0
    \/ RunInitializeProgress
    \/ E2EStartAll
    \/ RunWaitForHealthy /\ (runPc' = "matrix" => Live # {})
    \/ RunNextCell
    \/ RunAttempt
    \/ RunCellReturn
    \/ RunLoopEnd
    \/ RunSaveResults
    \/ runPc = "shutdown" /\ Shutdown
    \/ StopAllFrameworks
    \/ ShutdownCancel
    \/ ShutdownWait
    \/ shutdownPc = "done" /\ RunShutdown
    \/ RunFinish
    \/ ProcessExit
    \/ \E r \in DOMAIN monitors : MonitorTop(r)
    \/ \E r \in DOMAIN monitors : MonitorWait(r)
    \/ \E r \in DOMAIN monitors : MonitorCtx(r)
    \/ \E r \in DOMAIN monitors : MonitorExited(r)
    \/ \E r \in DOMAIN monitors : MonitorSleep(r)
    \/ \E r \in DOMAIN monitors : MonitorRestart(r)
    \/ \E r \in DOMAIN monitors : MonitorSpawn(r)
    \/ \E r \in DOMAIN monitors : MonitorSet(r)

SpecReturn == InitE2E /\ [][NextReturn]_vars

\* C34: once Run has returned, with nil or with the error of
\* StartAllFrameworks, WaitForHealthy, runBenchmarks or saveResults, Shutdown
\* of the process manager has run to its end and no OS process of the target
\* is alive.
C34_ReturnAfterShutdown ==
    runPc \in {"failed", "done"} => (shutdownPc = "done" /\ Live = {})

----------------------------------------------------------------------------
(* The locks of the process manager (internal/process/manager.go): pm.mu    *)
(* guards the registry pm.processes, and every ManagedProcess has its own   *)
(* mu. Both are sync.RWMutex: a reader waits while a writer holds the lock  *)
(* or waits for it. Every function of the manager is the sequence of its    *)
(* lock operations, in the order of its code, with the calls that take time *)
(* (cmd.Start, waiting for a process, a sleep, a health probe) between      *)
(* them. All targets are registered.                                        *)

\* the goroutines inside the manager at one time
MaxGoroutines == 2

LockTargets == {"f1", "f2"}

\* the name of pm.mu among the locks
Registry == "pm"

Goroutines == 1 .. MaxGoroutines

OtherTarget(name) == CHOOSE other \in LockTargets : other # name

otherThanLock == <<trackerVars, saveVars, runVars, supVars, delayVars, e2eVars, csvVars,
                   fanVars, parseVars>>

Lock(on) == [i |-> "Lock", on |-> on]

Unlock(on) == [i |-> "Unlock", on |-> on]

RLock(on) == [i |-> "RLock", on |-> on]

RUnlock(on) == [i |-> "RUnlock", on |-> on]

\* a call that takes time and touches no lock
Blocking(what) == [i |-> "work", on |-> what]

\* StartFramework: pm.mu is locked from entry to return (defer), around the
\* read of the state of the registered process and around startProcess
StartFrameworkLocks(name) ==
    << Lock(Registry), RLock(name), RUnlock(name), Blocking("startProcess"),
       Lock(name), Unlock(name), Unlock(Registry) >>

\* StopFramework doing its lookup after it has locked managedProc.mu
StopFrameworkLocksNested(name) ==
    << Lock(name), RLock(Registry), RUnlock(Registry), Blocking("Cmd.Wait"),
       Unlock(name) >>

\* StopFramework: the lookup under pm.mu, then managedProc.mu from there to
\* the return, around the wait of up to ten seconds for the process
StopFrameworkLocks(name) ==
    << RLock(Registry), RUnlock(Registry), Lock(name), Blocking("Cmd.Wait"),
       Unlock(name) >>

GetFrameworkStatusLocks(name) ==
    << RLock(Registry), RUnlock(Registry), RLock(name), RUnlock(name) >>

\* GetAllStatuses: pm.mu read-locked around the loop over the registry
GetAllStatusesLocks(name) ==
    << RLock(Registry), RLock(name), RUnlock(name),
       RLock(OtherTarget(name)), RUnlock(OtherTarget(name)), RUnlock(Registry) >>

\* IsFrameworkHealthy: GetFrameworkStatus, then curl
IsFrameworkHealthyLocks(name) ==
    GetFrameworkStatusLocks(name) \o << Blocking("curl") >>

\* monitorProcess, one turn of its loop that restarts the process
monitorProcessLocks(name) ==
    << RLock(name), RUnlock(name), Blocking("cmd.Wait"),
       RLock(Registry), RUnlock(Registry),
       Lock(name), Unlock(name), Blocking("time.After"),
       Lock(name), Unlock(name), Blocking("startProcess"),
       Lock(name), Unlock(name) >>

stopProcessOnlyLocks(name) ==
    << RLock(Registry), RUnlock(Registry), Lock(name), Blocking("Cmd.Wait"),
       Unlock(name) >>

startProcessForRestartLocks(name) ==
    << RLock(Registry), RUnlock(Registry), Lock(name), Unlock(name),
       Blocking("startProcess"), Lock(name), Unlock(name) >>

\* EnsureFrameworkRunning on its forced restart
EnsureFrameworkRunningLocks(name) ==
    IsFrameworkHealthyLocks(name)
    \o << Lock(Registry), Unlock(Registry), Lock(name), Unlock(name) >>
    \o stopProcessOnlyLocks(name)
    \o << Blocking("time.Sleep") >>
    \o startProcessForRestartLocks(name)
    \o << Blocking("waitForFrameworkHealthy") >>

\* Shutdown: the flag under pm.mu, StopAllFrameworks (the names under pm.mu,
\* then StopFramework for each), and the wait for the monitors
ShutdownLocks(name) ==
    << Lock(Registry), Unlock(Registry), RLock(Registry), RUnlock(Registry) >>
    \o StopFrameworkLocks(name)
    \o StopFrameworkLocks(OtherTarget(name))
    \o << Blocking("wg.Wait") >>

LockOps ==
    {"StartFramework", "StopFramework", "GetFrameworkStatus", "GetAllStatuses",
     "IsFrameworkHealthy", "monitorProcess", "EnsureFrameworkRunning", "Shutdown"}

\* the lock operations of a function of the manager called for a target
LocksOf(op, name) ==
    CASE op = "StartFramework" -> StartFrameworkLocks(name)
      [] op = "StopFramework" -> StopFrameworkLocks(name)
      [] op = "GetFrameworkStatus" -> GetFrameworkStatusLocks(name)
      [] op = "GetAllStatuses" -> GetAllStatusesLocks(name)
      [] op = "IsFrameworkHealthy" -> IsFrameworkHealthyLocks(name)
      [] op = "monitorProcess" -> monitorProcessLocks(name)
      [] op = "EnsureFrameworkRunning" -> EnsureFrameworkRunningLocks(name)
      [] op = "Shutdown" -> ShutdownLocks(name)
      [] OTHER -> << >>

NoGoroutine == [op |-> "idle", name |-> "", pc |-> 0]

FreeLock == [w |-> 0, r |-> {}, q |-> {}]

\* nobody holds the lock
Free(l) == l.w = 0 /\ l.r = {}

Active(t) == gor[t].op # "idle"

Program(t) == LocksOf(gor[t].op, gor[t].name)

Running(t) == Active(t) /\ gor[t].pc <= Len(Program(t))

\* the operation the goroutine is at
Instr(t) == Program(t)[gor[t].pc]

Advance(t) == gor' = [gor EXCEPT ![t].pc = @ + 1]

\* the locks the goroutine holds
Holds(t) == {on \in DOMAIN mu : mu[on].w = t \/ t \in mu[on].r}

\* the goroutine is at a Lock or RLock that does not return now
Waiting(t) ==
    /\ Running(t)
    /\ \/ Instr(t).i = "Lock" /\ ~Free(mu[Instr(t).on])
       \/ Instr(t).i = "RLock" /\ (mu[Instr(t).on].w # 0 \/ mu[Instr(t).on].q # {})

\* a goroutine enters a function of the manager
GoCall(t) ==
    /\ ~Active(t)
    /\ \E op \in LockOps, name \in LockTargets :
        gor' = [gor EXCEPT ![t] = [op |-> op, name |-> name, pc |-> 1]]
    /\ UNCHANGED <<mu, otherThanLock>>

\* Lock on a lock that is held: the writer waits, and readers behind it
GoLockWait(t) ==
    /\ Running(t)
    /\ Instr(t).i = "Lock"
    /\ ~Free(mu[Instr(t).on])
    /\ t \notin mu[Instr(t).on].q
    /\ mu' = [mu EXCEPT ![Instr(t).on].q = @ \cup {t}]
    /\ UNCHANGED <<gor, otherThanLock>>

\* Lock returns
GoLock(t) ==
    /\ Running(t)
    /\ Instr(t).i = "Lock"
    /\ Free(mu[Instr(t).on])
    /\ mu' = [mu EXCEPT ![Instr(t).on].w = t, ![Instr(t).on].q = @ \ {t}]
    /\ Advance(t)
    /\ UNCHANGED otherThanLock

\* RLock returns
GoRLock(t) ==
    /\ Running(t)
    /\ Instr(t).i = "RLock"
    /\ mu[Instr(t).on].w = 0
    /\ mu[Instr(t).on].q = {}
    /\ mu' = [mu EXCEPT ![Instr(t).on].r = @ \cup {t}]
    /\ Advance(t)
    /\ UNCHANGED otherThanLock

GoUnlock(t) ==
    /\ Running(t)
    /\ Instr(t).i = "Unlock"
    /\ mu' = [mu EXCEPT ![Instr(t).on].w = 0]
    /\ Advance(t)
    /\ UNCHANGED otherThanLock

GoRUnlock(t) ==
    /\ Running(t)
    /\ Instr(t).i = "RUnlock"
    /\ mu' = [mu EXCEPT ![Instr(t).on].r = @ \ {t}]
    /\ Advance(t)
    /\ UNCHANGED otherThanLock

\* a call that takes time returns
GoBlocking(t) ==
    /\ Running(t)
    /\ Instr(t).i = "work"
    /\ Advance(t)
    /\ UNCHANGED <<mu, otherThanLock>>

\* the function returns
GoReturn(t) ==
    /\ Active(t)
    /\ ~Running(t)
    /\ gor' = [gor EXCEPT ![t] = NoGoroutine]
    /\ UNCHANGED <<mu, otherThanLock>>

InitLock ==
    /\ disk = NoFile
    /\ now = 0
    /\ call = NoCall
    /\ IdleSave
    /\ IdleRun
    /\ IdleSup
    /\ IdleDelay
    /\ IdleE2E
    /\ IdleCsv
    /\ IdleFan
    /\ IdleParse
    /\ mu = [on \in {Registry} \cup LockTargets |-> FreeLock]
    /\ gor = [t \in Goroutines |-> NoGoroutine]

NextLock ==
    \/ \E t \in Goroutines : GoCall(t)
    \/ \E t \in Goroutines : GoLockWait(t)
    \/ \E t \in Goroutines : GoLock(t)
    \/ \E t \in Goroutines : GoRLock(t)
    \/ \E t \in Goroutines : GoUnlock(t)
    \/ \E t \in Goroutines : GoRUnlock(t)
    \/ \E t \in Goroutines : GoBlocking(t)
    \/ \E t \in Goroutines : GoReturn(t)

SpecLock == InitLock /\ [][NextLock]_vars

\* the goroutine is inside a call that takes time
InProgress(u) == Running(u) /\ Instr(u).i = "work"

\* C32: a GetFrameworkStatus or IsFrameworkHealthy on one target never waits
\* for a lock that a function working on another target holds while that
\* function is inside a call that takes time (starting or waiting for a
\* process, sleeping).
C32_NoCrossTargetBlocking ==
    \A t \in Goroutines, u \in Goroutines :
        ~(/\ Active(t) /\ Active(u)
          /\ gor[t].op \in {"GetFrameworkStatus", "IsFrameworkHealthy"}
          /\ Waiting(t)
          /\ gor[u].op \in {"StartFramework", "StopFramework", "monitorProcess",
                            "EnsureFrameworkRunning"}
          /\ gor[u].name # gor[t].name
          /\ Instr(t).on \in Holds(u)
          /\ InProgress(u))

\* every goroutine inside the manager waits for a lock
Deadlock ==
    /\ \E t \in Goroutines : Active(t)
    /\ \A t \in Goroutines : Active(t) => Waiting(t)

\* C39: a goroutine that asks for pm.mu holds the mu of no ManagedProcess,
\* and the goroutines inside the manager never all wait for a lock.
C39_LockOrder ==
    /\ \A t \in Goroutines :
        (Running(t) /\ Instr(t).i \in {"Lock", "RLock"} /\ Instr(t).on = Registry) =>
            Holds(t) \cap LockTargets = {}
    /\ ~Deadlock

\* StartFramework, holding pm.mu, waits for the mu of a ManagedProcess that a
\* StopFramework holds
C39_Witness ==
    \E t \in Goroutines, u \in Goroutines :
        /\ Active(t) /\ Active(u)
        /\ gor[t].op = "StartFramework"
        /\ Waiting(t)
        /\ Registry \in Holds(t)
        /\ Instr(t).on \in LockTargets
        /\ gor[u].op = "StopFramework"
        /\ mu[Instr(t).on].w = u

====
